---- MODULE Spec2Model ----
(***************************************************************************)
(* LoSpeak: signaling relay (party/index.ts), room orchestrator            *)
(* (routes/r/+page.svelte), mesh and screen-share connections (lib/rtc.ts, *)
(* lib/screen.ts) and the VAD noise gate (lib/vad-noise.ts).               *)
(***************************************************************************)
EXTENDS Integers, Sequences, FiniteSets, Bags, TLC

(***************************************************************************)
(* Bounds of the model.                                                    *)
(***************************************************************************)
Ids == {"A", "B", "C"}

NoId == "-"

(***************************************************************************)
(* Display names are sequences of one-character strings, so that           *)
(* toLowerCase, trim, the regular-expression replacements, slice and the   *)
(* decimal suffix are computed character by character.                     *)
(***************************************************************************)
Upper == <<"A","B","C","D","E","F","G","H","I","J","K","L","M",
           "N","O","P","Q","R","S","T","U","V","W","X","Y","Z">>

Lower == <<"a","b","c","d","e","f","g","h","i","j","k","l","m",
           "n","o","p","q","r","s","t","u","v","w","x","y","z">>

Digits == <<"0","1","2","3","4","5","6","7","8","9">>

Range(s) == {s[i] : i \in DOMAIN s}

Letters == Range(Upper) \cup Range(Lower)

\* String.prototype.toLowerCase, one character
LowerChar == [c \in Letters |->
  IF c \in Range(Upper)
    THEN Lower[CHOOSE i \in DOMAIN Upper : Upper[i] = c]
    ELSE c]

\* String.prototype.toLowerCase
toLowerCase(s) ==
  [i \in DOMAIN s |-> IF s[i] \in Letters THEN LowerChar[s[i]] ELSE s[i]]

\* the characters \s matches, among those the model feeds in
IsSpace(c) == c \in {" ", "\t"}

\* the character class [A-Za-z0-9 _\-]
AllowedChars == Letters \cup Range(Digits) \cup {" ", "_", "-"}

IsAllowed(c) == c \in AllowedChars

RECURSIVE TrimLeft(_)
TrimLeft(s) ==
  IF s # <<>> /\ IsSpace(Head(s)) THEN TrimLeft(Tail(s)) ELSE s

RECURSIVE TrimRight(_)
TrimRight(s) ==
  IF s # <<>> /\ IsSpace(s[Len(s)])
    THEN TrimRight(SubSeq(s, 1, Len(s) - 1))
    ELSE s

\* String.prototype.trim
Trim(s) == TrimRight(TrimLeft(s))

\* replace(/\s+/g, " ")
RECURSIVE CollapseWs(_)
CollapseWs(s) ==
  IF s = <<>> THEN <<>>
  ELSE IF IsSpace(Head(s))
    THEN <<" ">> \o CollapseWs(TrimLeft(Tail(s)))
    ELSE <<Head(s)>> \o CollapseWs(Tail(s))

\* replace(/[^A-Za-z0-9 _\-]/g, "")
StripChars(s) == SelectSeq(s, IsAllowed)

\* slice(0, n)
Slice(s, n) == SubSeq(s, 1, IF Len(s) < n THEN Len(s) ELSE n)

\* the decimal rendering of a template literal ${i}
RECURSIVE IntToStr(_)
IntToStr(i) ==
  IF i < 10 THEN <<Digits[i + 1]>>
  ELSE IntToStr(i \div 10) \o <<Digits[(i % 10) + 1]>>

(***************************************************************************)
(* Inputs of the relay model.                                              *)
(***************************************************************************)
QuietEmber == <<"Q","u","i","e","t"," ","E","m","b","e","r">>

AmberMist == <<"A","m","b","e","r"," ","M","i","s","t">>

\* generateName(): the adjective/noun pairs the model draws from
GenNames == {QuietEmber, AmberMist}

River == <<"r","i","v","e","r">>

RiverUp == <<"R","i","v","e","r">>

LongRaw ==
  [i \in 1..26 |-> IF i = 24 THEN " " ELSE IF i = 25 THEN "b" ELSE "a"]

\* the `name` values of rename-request frames the model feeds in
RawNames ==
  { River, RiverUp, River \o <<"-","2">>,
    <<" ","\t","r","i","!","v","e","r"," ">>, <<>>, LongRaw }

(***************************************************************************)
(* Signal messages (SignalMessage in party/index.ts and lib/types.ts).     *)
(* Every frame is a record of one shape; unused fields hold defaults.      *)
(***************************************************************************)
Msg(type) ==
  [type |-> type, peerId |-> NoId, name |-> <<>>, from |-> NoId, to |-> NoId,
   peers |-> <<>>, flag |-> FALSE, body |-> 0]

\* rename-request frames handled in the model
MaxRenames == 3

\* relay: Map<string, PeerInfo>, in insertion order
VARIABLE peers
\* relay: Set<string>
VARIABLE screenSharers
\* the handler that ran last, its input and the frames it sent
VARIABLE last

\* how much of each bounded input the run has used
VARIABLE count

relayVars == <<peers, screenSharers>>

(***************************************************************************)
(* Relay helpers                                                           *)
(***************************************************************************)
\* ids of the roster, in Map iteration order
PeerIds(ps) == [i \in DOMAIN ps |-> ps[i].id]

HasPeer(ps, id) == \E i \in DOMAIN ps : ps[i].id = id

\* Map.get(id).name
NameOf(ps, id) == ps[CHOOSE i \in DOMAIN ps : ps[i].id = id].name

\* Map.set: a present key keeps its position, a new key goes last
MapSet(ps, id, name) ==
  IF HasPeer(ps, id)
    THEN [i \in DOMAIN ps |->
            IF ps[i].id = id THEN [id |-> id, name |-> name] ELSE ps[i]]
    ELSE Append(ps, [id |-> id, name |-> name])

\* Map.delete
MapDelete(ps, id) == SelectSeq(ps, LAMBDA p : p.id # id)

\* generateName(): the names it can return
generateName == GenNames

\* sanitizeName(raw): the names it can return (one, unless it falls back
\* to generateName)
sanitizeName(raw) ==
  LET name == Slice(StripChars(CollapseWs(Trim(raw))), 24)
  IN IF name = <<>> THEN generateName ELSE {name}

\* isNameTaken comparing the names as they are, not lower-cased
isNameTakenExact(ps, name, exceptId) ==
  \E i \in DOMAIN ps : ps[i].id # exceptId /\ ps[i].name = name

isNameTaken(ps, name, exceptId) ==
  \E i \in DOMAIN ps :
    ps[i].id # exceptId /\ toLowerCase(ps[i].name) = toLowerCase(name)

Candidate(tryBase, i) == tryBase \o <<"-">> \o IntToStr(i)

\* the for loop of allocateUniqueName: the first free suffix from i on,
\* 1000 when the loop runs out
RECURSIVE FirstFree(_, _, _)
FirstFree(ps, tryBase, i) ==
  IF i >= 1000 THEN 1000
  ELSE IF ~isNameTaken(ps, Candidate(tryBase, i), NoId) THEN i
  ELSE FirstFree(ps, tryBase, i + 1)

\* allocateUniqueName once tryBase is known: the names it can return
\* (the last branch is the Date.now() % 1000 fallback)
allocateFrom(ps, tryBase) ==
  IF ~isNameTaken(ps, tryBase, NoId) THEN {tryBase}
  ELSE LET k == FirstFree(ps, tryBase, 2)
       IN IF k < 1000 THEN {Candidate(tryBase, k)}
          ELSE {Candidate(tryBase, n) : n \in 0..999}

\* allocateUniqueName(peers, base): the set of names it can return
\* (base = <<>> stands for an absent or empty base)
allocateUniqueName(ps, base) ==
  LET bases == IF base = <<>> THEN generateName ELSE {base}
      tryBases == UNION {sanitizeName(b) : b \in bases}
  IN UNION {allocateFrom(ps, t) : t \in tryBases}

\* broadcast sending to every connection, excluded or not
broadcastAll(ps, msg, exclude) ==
  [i \in DOMAIN ps |-> [to |-> ps[i].id, msg |-> msg]]

\* the frames broadcast(message, exclude) sends, in Map order
broadcast(ps, msg, exclude) ==
  LET rcpt == SelectSeq(PeerIds(ps), LAMBDA id : id \notin exclude)
  IN [i \in DOMAIN rcpt |-> [to |-> rcpt[i], msg |-> msg]]

Last(op, who, data, sent) == [op |-> op, who |-> who, data |-> data, sent |-> sent]

(***************************************************************************)
(* Relay handlers.  Each is the whole handler: the roster and sharer-set   *)
(* update and, in `last.sent`, every conn.send it performs, in order.      *)
(***************************************************************************)
\* onConnect(conn): the welcome roster
existingPeers(ps, ss, peerId) ==
  LET others == SelectSeq(ps, LAMBDA p : p.id # peerId)
  IN [i \in DOMAIN others |->
        [id |-> others[i].id, name |-> others[i].name,
         screenSharing |-> others[i].id \in ss]]

OnConnect(peerId) ==
  \E name \in allocateUniqueName(peers, <<>>) :
    LET ps == MapSet(peers, peerId, name)
        welcome == [Msg("welcome") EXCEPT !.peerId = peerId, !.name = name,
                      !.peers = existingPeers(ps, screenSharers, peerId)]
        join == [Msg("join") EXCEPT !.peerId = peerId, !.name = name]
    IN /\ peers' = ps
       /\ UNCHANGED screenSharers
       /\ last' = Last("onConnect", peerId, Msg("open"),
                       <<[to |-> peerId, msg |-> welcome]>>
                         \o broadcast(ps, join, {peerId}))

\* the rename broadcast leaving out the sender
renameFramesOthers(ps, sender, unique) ==
  broadcast(ps, [Msg("rename") EXCEPT !.peerId = sender, !.name = unique],
            {sender})

\* onMessage, case "rename-request": this.broadcast({type: "rename", ...})
renameFrames(ps, sender, unique) ==
  broadcast(ps, [Msg("rename") EXCEPT !.peerId = sender, !.name = unique], {})

\* onMessage, case "rename-request"
RenameRequest(sender, data) ==
  IF ~HasPeer(peers, sender)
    THEN /\ UNCHANGED relayVars
         /\ last' = Last("onMessage", sender, data, <<>>)
    ELSE
      \E proposed \in sanitizeName(data.name) :
        LET current == NameOf(peers, sender)
            uniques == IF isNameTaken(peers, proposed, sender)
                         THEN allocateUniqueName(peers, proposed)
                         ELSE {proposed}
        IN \E unique \in uniques :
             IF unique # current
               THEN /\ peers' = MapSet(peers, sender, unique)
                    /\ UNCHANGED screenSharers
                    /\ last' = Last("onMessage", sender, data,
                         renameFrames(MapSet(peers, sender, unique),
                                      sender, unique))
               ELSE /\ UNCHANGED relayVars
                    /\ last' = Last("onMessage", sender, data, <<>>)

\* onClose broadcasting leave before screen-stop
OnCloseLeaveFirst(peerId) ==
  LET ps == MapDelete(peers, peerId)
      stop == IF peerId \in screenSharers
                THEN broadcast(ps, [Msg("screen-stop") EXCEPT !.peerId = peerId], {})
                ELSE <<>>
  IN /\ peers' = ps
     /\ screenSharers' = screenSharers \ {peerId}
     /\ last' = Last("onClose", peerId, Msg("close"),
                     broadcast(ps, [Msg("leave") EXCEPT !.peerId = peerId], {}) \o stop)

\* onClose(conn)
OnClose(peerId) ==
  LET ps == MapDelete(peers, peerId)
      stop == IF peerId \in screenSharers
                THEN broadcast(ps, [Msg("screen-stop") EXCEPT !.peerId = peerId], {})
                ELSE <<>>
  IN /\ peers' = ps
     /\ screenSharers' = screenSharers \ {peerId}
     /\ last' = Last("onClose", peerId, Msg("close"),
                     stop \o broadcast(ps, [Msg("leave") EXCEPT !.peerId = peerId], {}))

\* the frame types onMessage relays to the peer named in `to`
Forwarded ==
  {"offer", "answer", "ice-candidate", "screen-subscribe",
   "screen-unsubscribe", "screen-offer", "screen-answer", "screen-ice"}

\* the targeted cases answering the sender when the target is gone
forwardFramesOrError(ps, sender, data) ==
  IF HasPeer(ps, data.to)
    THEN <<[to |-> data.to, msg |-> [data EXCEPT !.from = sender]]>>
    ELSE <<[to |-> sender, msg |-> [Msg("error") EXCEPT !.to = data.to]]>>

\* onMessage, the targeted cases: targetPeer.connection.send({...data, from})
forwardFrames(ps, sender, data) ==
  IF HasPeer(ps, data.to)
    THEN <<[to |-> data.to, msg |-> [data EXCEPT !.from = sender]]>>
    ELSE <<>>

\* the status cases trusting the peerId of the payload
statusFramesSpoofed(ps, sender, data) ==
  broadcast(ps, [Msg(data.type) EXCEPT !.peerId = data.peerId,
                                       !.flag = data.flag], {sender})

\* onMessage, cases "mute-status" and "camera-status"
statusFrames(ps, sender, data) ==
  broadcast(ps, [Msg(data.type) EXCEPT !.peerId = sender, !.flag = data.flag],
            {sender})

\* onMessage, cases "screen-start" and "screen-stop"
screenFrames(ps, sender, data) ==
  broadcast(ps, [Msg(data.type) EXCEPT !.peerId = sender], {sender})

\* onMessage(message, sender)
OnMessage(sender, data) ==
  IF data.type = "rename-request" THEN RenameRequest(sender, data)
  ELSE
    /\ UNCHANGED peers
    /\ screenSharers' =
         IF data.type = "screen-start" THEN screenSharers \cup {sender}
         ELSE IF data.type = "screen-stop" THEN screenSharers \ {sender}
         ELSE screenSharers
    /\ last' = Last("onMessage", sender, data,
         IF data.type \in Forwarded THEN forwardFrames(peers, sender, data)
         ELSE IF data.type \in {"mute-status", "camera-status"}
           THEN statusFrames(peers, sender, data)
         ELSE IF data.type \in {"screen-start", "screen-stop"}
           THEN screenFrames(peers, sender, data)
         ELSE <<>>)

\* a frame as it arrives: JSON text that parses to data, or text that
\* JSON.parse rejects
Frame(data) == [json |-> TRUE, data |-> data]

NotJson == [json |-> FALSE, data |-> Msg("none")]

\* onMessage without the try / catch: the exception of JSON.parse ends the
\* sender's connection
OnFrameUncaught(sender, message) ==
  IF message.json THEN OnMessage(sender, message.data)
  ELSE /\ peers' = MapDelete(peers, sender)
       /\ UNCHANGED screenSharers
       /\ last' = Last("onMessage", sender, message.data, <<>>)

\* onMessage(message, sender) from the raw frame on: JSON.parse inside the
\* try, the switch, and the catch that only logs
OnFrame(sender, message) ==
  IF message.json THEN OnMessage(sender, message.data)
  ELSE /\ UNCHANGED relayVars
       /\ last' = Last("onMessage", sender, message.data, <<>>)

(***************************************************************************)
(* Noise suppression (lib/noise.ts): the Insertable Streams processor and  *)
(* the AudioWorklet graph behind startNoiseSuppression.  A track is known  *)
(* by its name, the processed track by the name "processed".               *)
(***************************************************************************)
NoiseTracks == {"mic1", "mic2"}

\* calls of startNoiseSuppression and stopNoiseSuppression in a run
MaxNoiseCalls == 3

\* the module-level state of lib/noise.ts; call is the call in progress:
\* the await it is suspended at, the track it was given and what the
\* browser supports; closed counts the audio contexts closed, returned is
\* the last return
NoNoiseCall ==
  [op |-> "none", pc |-> "idle", track |-> "null", raw |-> "null",
   worklet |-> FALSE]

NoiseInit ==
  [ shiguredoProcessor |-> FALSE, audioContext |-> FALSE, sourceNode |-> FALSE,
    rnnoiseNode |-> FALSE, destinationNode |-> FALSE,
    originalTrack |-> "null", processedTrack |-> "null",
    activeMethod |-> "null",
    call |-> NoNoiseCall, calls |-> 0, closed |-> 0,
    returned |-> [n |-> 0, op |-> "none", given |-> "null", ret |-> "null"] ]

\* isNoiseSuppressionActive()
isNoiseSuppressionActive(n) ==
  n.activeMethod # "null" /\ n.processedTrack # "null"

\* stopNoiseSuppression up to `await audioContext.close()`
noiseStopNodes(n) ==
  [n EXCEPT !.shiguredoProcessor = FALSE, !.sourceNode = FALSE,
            !.rnnoiseNode = FALSE, !.destinationNode = FALSE]

\* stopNoiseSuppression from the close on: "Reset state"
noiseStopReset(n) ==
  [n EXCEPT !.closed = IF n.audioContext THEN @ + 1 ELSE @,
            !.audioContext = FALSE, !.originalTrack = "null",
            !.processedTrack = "null", !.activeMethod = "null"]

\* the call in progress returns ret
noiseReturn(n, ret) ==
  [n EXCEPT !.returned = [n |-> n.returned.n + 1, op |-> n.call.op,
                          given |-> n.call.track, ret |-> ret],
            !.call = NoNoiseCall]

\* startNoiseSuppression from "Fallback to AudioWorklet" on: with
\* AudioWorklet, startWorkletNoiseSuppression up to `await loadRnnoise`;
\* without, `return track`
workletStage(n) ==
  IF n.call.worklet
    THEN [n EXCEPT !.audioContext = TRUE, !.call.pc = "loadRnnoise"]
    ELSE noiseReturn(n, n.call.track)

\* startNoiseSuppression after `await stopNoiseSuppression()`
noiseAfterStop(n, insertable) ==
  LET n1 == [n EXCEPT !.originalTrack = n.call.track]
  IN IF insertable
       THEN [n1 EXCEPT !.shiguredoProcessor = TRUE, !.call.pc = "startProcessing"]
       ELSE workletStage(n1)

\* startWorkletNoiseSuppression throws, with the source node created or not:
\* the catch logs, `return track`
workletFailed(n, sourceMade) ==
  noiseReturn([n EXCEPT !.sourceNode = sourceMade], n.call.track)

(***************************************************************************)
(* VAD noise gate (lib/vad-noise.ts).  Scores and the threshold are in     *)
(* hundredths; a sample block is known by its frame, not by its samples.   *)
(***************************************************************************)
HOLD_FRAMES == 10

RNNOISE_SAMPLE_LENGTH == 480

\* inputBuffer.length, outputBuffer.length
BufferLen == RNNOISE_SAMPLE_LENGTH * 16

\* createScriptProcessor(1024, 1, 1)
BlockLen == 1024

\* let vadThreshold = 0.85
DefaultThreshold == 85

\* voice-probability scores the denoising model returns in the model
Scores == {20, 85}

\* arguments of setVadThreshold in the model
ThresholdInputs == {50, 85}

Tracks == {"mic1", "mic2"}

\* whether _rnnoise_destroy returns (TRUE) or throws (FALSE), in the model
DestroyOutcomes == {TRUE}

\* frames gated per session in the model
MaxFrames == 12

\* start calls in the model
MaxStarts == 2

\* the two circular buffers with the block length of the host and the
\* buffer length: processAudio behind createScriptProcessor(1024, 1, 1) with
\* buffers of RNNOISE_SAMPLE_LENGTH * 16, and VadNoiseProcessor.process with
\* the render quantum of 128 and buffers of RNNOISE_SAMPLE_LENGTH * 4
RingConfigs ==
  {[block |-> BlockLen, len |-> BufferLen],
   [block |-> 128, len |-> RNNOISE_SAMPLE_LENGTH * 4]}

\* blocks the host delivers in a run of SpecRing
MaxBlocks == 60

\* the indices of the buffers before the first block; inUnread and
\* outUnread count the samples written and not yet read, blocks the calls,
\* started tells whether a block of processed samples has gone out,
\* underrun whether a block of silence went out after that
RingInit ==
  [block |-> 0, len |-> 0,
   inputWriteIdx |-> 0, inputReadIdx |-> 0,
   outputWriteIdx |-> 0, outputReadIdx |-> 0,
   inUnread |-> 0, outUnread |-> 0, blocks |-> 0,
   started |-> FALSE, underrun |-> FALSE]

\* the module-level state of lib/vad-noise.ts and, in its field noise, of
\* lib/noise.ts; ctxSeq, liveCtx, liveAudio, scores, gated and moved record
\* what was created, released and processed, lastSet who last set the
\* threshold and from which value
VARIABLE vad

NoCall == [op |-> "none", pc |-> "idle", track |-> "null"]

VadInit ==
  [ audioContext |-> 0, sourceNode |-> FALSE, scriptNode |-> FALSE,
    destinationNode |-> FALSE, originalTrack |-> "null", processedTrack |-> 0,
    isActive |-> FALSE, rnnoiseModule |-> FALSE, rnnoiseContext |-> 0,
    wasmPcmPtr |-> 0, inputWriteIdx |-> 0, inputReadIdx |-> 0,
    outputWriteIdx |-> 0, outputReadIdx |-> 0, voiceHoldCounter |-> 0,
    isVoiceActive |-> FALSE, vadThreshold |-> DefaultThreshold,
    ctxSeq |-> 0, liveCtx |-> {}, audioSeq |-> 0, liveAudio |-> {},
    scores |-> <<>>, gated |-> <<>>, moved |-> FALSE, starts |-> 0,
    call |-> NoCall, ret |-> "none",
    calls |-> <<>>, given |-> "null",
    returned |-> [n |-> 0, op |-> "none", ret |-> "none", expect |-> "none"],
    lastSet |-> [by |-> "init", arg |-> DefaultThreshold],
    ring |-> RingInit,
    noise |-> NoiseInit ]

\* getAvailable(writeIdx, readIdx, bufferLen)
getAvailable(writeIdx, readIdx, bufferLen) ==
  IF writeIdx >= readIdx THEN writeIdx - readIdx
  ELSE bufferLen - readIdx + writeIdx

\* GateFrame with the threshold test strict
GateFrameStrict(v, vadScore) ==
  LET g == IF vadScore > v.vadThreshold
             THEN [v EXCEPT !.isVoiceActive = TRUE,
                            !.voiceHoldCounter = HOLD_FRAMES]
           ELSE IF v.voiceHoldCounter > 0
             THEN [v EXCEPT !.voiceHoldCounter = v.voiceHoldCounter - 1]
           ELSE [v EXCEPT !.isVoiceActive = FALSE]
  IN [g EXCEPT
        !.outputWriteIdx = (g.outputWriteIdx + RNNOISE_SAMPLE_LENGTH) % BufferLen,
        !.scores = Append(g.scores, vadScore),
        !.gated = Append(g.gated, g.isVoiceActive)]

\* the VAD gating of one frame and the write of its 480 output samples;
\* gated records whether the frame went out denoised (TRUE) or zeroed
GateFrame(v, vadScore) ==
  LET g == IF vadScore >= v.vadThreshold
             THEN [v EXCEPT !.isVoiceActive = TRUE,
                            !.voiceHoldCounter = HOLD_FRAMES]
           ELSE IF v.voiceHoldCounter > 0
             THEN [v EXCEPT !.voiceHoldCounter = v.voiceHoldCounter - 1]
           ELSE [v EXCEPT !.isVoiceActive = FALSE]
  IN [g EXCEPT
        !.outputWriteIdx = (g.outputWriteIdx + RNNOISE_SAMPLE_LENGTH) % BufferLen,
        !.scores = Append(g.scores, vadScore),
        !.gated = Append(g.gated, g.isVoiceActive)]

\* the while loop of processAudio: every complete frame, scs[1] first
RECURSIVE ProcessFrames(_, _)
ProcessFrames(v, scs) ==
  IF getAvailable(v.inputWriteIdx, v.inputReadIdx, BufferLen) < RNNOISE_SAMPLE_LENGTH
       \/ scs = <<>>
    THEN v
    ELSE ProcessFrames(
           GateFrame([v EXCEPT !.inputReadIdx =
                        (v.inputReadIdx + RNNOISE_SAMPLE_LENGTH) % BufferLen],
                     Head(scs)),
           Tail(scs))

\* complete frames in the input buffer once a block has been written
FramesReady(v) ==
  getAvailable((v.inputWriteIdx + BlockLen) % BufferLen, v.inputReadIdx, BufferLen)
    \div RNNOISE_SAMPLE_LENGTH

\* processAudio(event) for one block, the model scoring the frames scs
processAudio(v, scs) ==
  LET w == [v EXCEPT !.inputWriteIdx = (v.inputWriteIdx + BlockLen) % BufferLen]
      f == ProcessFrames(w, scs)
      outAvailable == getAvailable(f.outputWriteIdx, f.outputReadIdx, BufferLen)
  IN IF outAvailable >= BlockLen
       THEN [f EXCEPT !.outputReadIdx = (f.outputReadIdx + BlockLen) % BufferLen]
       ELSE f

\* the while loop of processAudio and of process on the indices alone:
\* every complete frame is read from the input buffer and its 480 samples
\* are written to the output buffer
RECURSIVE ringFrames(_)
ringFrames(r) ==
  IF getAvailable(r.inputWriteIdx, r.inputReadIdx, r.len) < RNNOISE_SAMPLE_LENGTH
    THEN r
    ELSE ringFrames(
           [r EXCEPT
              !.inputReadIdx = (r.inputReadIdx + RNNOISE_SAMPLE_LENGTH) % r.len,
              !.outputWriteIdx = (r.outputWriteIdx + RNNOISE_SAMPLE_LENGTH) % r.len,
              !.inUnread = r.inUnread - RNNOISE_SAMPLE_LENGTH,
              !.outUnread = r.outUnread + RNNOISE_SAMPLE_LENGTH])

\* processAudio(event) / process(inputs, outputs) for one block of the
\* host: the block is written to the input buffer, the complete frames are
\* processed, and a block is read from the output buffer if it holds one,
\* silence going out otherwise
ringProcess(r) ==
  LET w == [r EXCEPT !.inputWriteIdx = (r.inputWriteIdx + r.block) % r.len,
                     !.inUnread = r.inUnread + r.block,
                     !.blocks = r.blocks + 1]
      f == ringFrames(w)
      available == getAvailable(f.outputWriteIdx, f.outputReadIdx, f.len)
  IN IF available >= f.block
       THEN [f EXCEPT !.outputReadIdx = (f.outputReadIdx + f.block) % f.len,
                      !.outUnread = f.outUnread - f.block,
                      !.started = TRUE]
       ELSE [f EXCEPT !.underrun = f.underrun \/ f.started]

\* the processing graph is built: the host's block length and the buffers
RingStart ==
  /\ vad.ring.len = 0
  /\ \E c \in RingConfigs :
       vad' = [vad EXCEPT !.ring = [RingInit EXCEPT !.block = c.block,
                                                    !.len = c.len]]

\* the audio engine delivers a block
RingBlock ==
  /\ vad.ring.len # 0
  /\ vad.ring.blocks < MaxBlocks
  /\ vad' = [vad EXCEPT !.ring = ringProcess(vad.ring)]

\* sequences of n scores
ScoreSeqs(n) == [1..n -> Scores]

\* the audio engine delivers a block to scriptNode.onaudioprocess
ProcessAudio ==
  /\ vad.scriptNode
  /\ Len(vad.scores) + FramesReady(vad) <= MaxFrames
  /\ \E scs \in ScoreSeqs(FramesReady(vad)) : vad' = processAudio(vad, scs)

\* setVadThreshold(threshold)
setVadThreshold(v, threshold) ==
  LET t == IF threshold > 100 THEN 100 ELSE IF threshold < 0 THEN 0 ELSE threshold
  IN [v EXCEPT !.vadThreshold = t,
               !.moved = v.moved \/ (v.isActive /\ t # v.vadThreshold)]

SetVadThreshold ==
  \E t \in ThresholdInputs :
    /\ t # vad.vadThreshold
    /\ vad' = setVadThreshold(vad, t)

\* values handed to setVadThreshold directly, in hundredths
AnyThresholds == {-20, 0, 20, 50, 98, 100, 130}

\* a call of the exported setVadThreshold with any number
SetAnyThreshold ==
  \E t \in AnyThresholds :
    vad' = [setVadThreshold(vad, t) EXCEPT
              !.lastSet = [by |-> "setVadThreshold", arg |-> t]]

\* getBoundingClientRect().width of the meter bar and the pointer's
\* clientX - rect.left, in pixels; x / width is a whole number of
\* hundredths for each pair
DragWidths == {50, 100}

DragXs == {-10, 0, 20, 30, 49, 50, 60, 120}

\* x / rect.width in hundredths
dragRatio(x, width) == (x * 100) \div width

\* handleThresholdDrag without its Math.max(0.5, Math.min(0.98, ...))
handleThresholdDragUnclamped(v, x, width) ==
  setVadThreshold(v, dragRatio(x, width))

\* handleThresholdDrag(e) while dragging:
\* percent = Math.max(0.5, Math.min(0.98, x / rect.width))
handleThresholdDrag(v, x, width) ==
  LET r == dragRatio(x, width)
      percent == IF r > 98 THEN 98 ELSE IF r < 50 THEN 50 ELSE r
  IN setVadThreshold(v, percent)

\* the pointer moves while the threshold marker is dragged
HandleThresholdDrag ==
  \E x \in DragXs, width \in DragWidths :
    vad' = [handleThresholdDrag(vad, x, width) EXCEPT
              !.lastSet = [by |-> "handleThresholdDrag",
                           arg |-> dragRatio(x, width)]]

\* frames gated in a run of SpecThreshold
MaxGated == 3

\* the audio engine delivers a block while few frames have been gated
GateBlock == Len(vad.scores) < MaxGated /\ ProcessAudio

\* stopVadNoiseSuppression up to `await audioContext.close()`
stopNodes(v) ==
  [v EXCEPT !.sourceNode = FALSE, !.scriptNode = FALSE,
            !.destinationNode = FALSE,
            !.liveAudio = v.liveAudio \ {v.audioContext}]

\* stopVadNoiseSuppression after the close, without the try / catch around
\* _rnnoise_destroy: a throw leaves the rest of the function undone
stopReleaseUncaught(v, destroyOk) ==
  IF v.rnnoiseModule /\ v.rnnoiseContext # 0 /\ ~destroyOk
    THEN [v EXCEPT !.audioContext = 0]
    ELSE [v EXCEPT !.liveCtx = v.liveCtx \ {v.rnnoiseContext},
                   !.rnnoiseContext = 0, !.wasmPcmPtr = 0,
                   !.audioContext = 0, !.originalTrack = "null",
                   !.processedTrack = 0, !.isActive = FALSE]

\* stopVadNoiseSuppression after the close: destroyOk is whether
\* _rnnoise_destroy returned rather than threw
stopRelease(v, destroyOk) ==
  LET r == IF v.rnnoiseModule /\ v.rnnoiseContext # 0
             THEN [v EXCEPT !.liveCtx = IF destroyOk
                                          THEN v.liveCtx \ {v.rnnoiseContext}
                                          ELSE v.liveCtx,
                            !.rnnoiseContext = 0, !.wasmPcmPtr = 0]
             ELSE v
  IN [r EXCEPT !.audioContext = 0, !.originalTrack = "null",
               !.processedTrack = 0, !.isActive = FALSE]

\* initRnnoiseContext(module)
initRnnoiseContext(v) ==
  [v EXCEPT !.wasmPcmPtr = v.ctxSeq + 1,
            !.rnnoiseContext = v.ctxSeq + 1,
            !.ctxSeq = v.ctxSeq + 1,
            !.liveCtx = v.liveCtx \cup {v.ctxSeq + 1}]

\* new AudioContext()
newAudioContext(v) ==
  [v EXCEPT !.audioContext = v.audioSeq + 1,
            !.audioSeq = v.audioSeq + 1,
            !.liveAudio = v.liveAudio \cup {v.audioSeq + 1}]

\* resetBuffers leaving the gate's hold state as the last session left it
resetBuffersKeepHold(v) ==
  [v EXCEPT !.inputWriteIdx = 0, !.inputReadIdx = 0,
            !.outputWriteIdx = 0, !.outputReadIdx = 0,
            !.scores = <<>>, !.gated = <<>>, !.moved = FALSE]

\* startVadNoiseSuppression: "Reset buffers" and what follows
resetBuffers(v) ==
  [v EXCEPT !.inputWriteIdx = 0, !.inputReadIdx = 0,
            !.outputWriteIdx = 0, !.outputReadIdx = 0,
            !.voiceHoldCounter = 0, !.isVoiceActive = FALSE,
            !.scores = <<>>, !.gated = <<>>, !.moved = FALSE]

\* startVadNoiseSuppression from loadRnnoiseModule's return to its own
startBuild(v) ==
  LET g == [newAudioContext(initRnnoiseContext([v EXCEPT !.rnnoiseModule = TRUE]))
              EXCEPT !.sourceNode = TRUE, !.scriptNode = TRUE,
                     !.destinationNode = TRUE]
      r == resetBuffers(g)
  IN [r EXCEPT !.processedTrack = r.audioContext, !.isActive = TRUE,
               !.ret = "processed", !.call = NoCall]

\* a stop that runs to its end: there is no audio context to close
StopThrough(v, destroyOk) == stopRelease(stopNodes(v), destroyOk)

\* startVadNoiseSuppression(track) is called
StartCall ==
  /\ vad.call = NoCall
  /\ vad.starts < MaxStarts
  /\ \E track \in Tracks, destroyOk \in DestroyOutcomes :
       LET v == [vad EXCEPT !.starts = vad.starts + 1, !.ret = "none"]
       IN IF v.audioContext # 0
            THEN vad' = [stopNodes(v) EXCEPT
                           !.call = [op |-> "start", pc |-> "stopClose",
                                     track |-> track]]
            ELSE vad' = [StopThrough(v, destroyOk) EXCEPT
                           !.originalTrack = track,
                           !.call = [op |-> "start", pc |-> "load",
                                     track |-> track]]

\* the first stop of a start resumes after audioContext.close()
StartAfterClose ==
  /\ vad.call.op = "start" /\ vad.call.pc = "stopClose"
  /\ \E destroyOk \in DestroyOutcomes :
       vad' = [stopRelease(vad, destroyOk) EXCEPT
                 !.originalTrack = vad.call.track,
                 !.call = [vad.call EXCEPT !.pc = "load"]]

\* start resumes after loadRnnoiseModule(): the session is built
StartBuilt ==
  /\ vad.call.op = "start" /\ vad.call.pc = "load"
  /\ vad' = startBuild(vad)

\* loadRnnoiseModule() rejects: catch, stop, return the given track
StartLoadFails ==
  /\ vad.call.op = "start" /\ vad.call.pc = "load"
  /\ ~vad.rnnoiseModule
  /\ \E destroyOk \in DestroyOutcomes :
       vad' = [StopThrough(vad, destroyOk) EXCEPT
                 !.ret = "original", !.call = NoCall]

\* building the graph throws once the contexts exist: catch, stop
StartGraphFails ==
  /\ vad.call.op = "start" /\ vad.call.pc = "load"
  /\ vad' = [stopNodes(newAudioContext(initRnnoiseContext(
                 [vad EXCEPT !.rnnoiseModule = TRUE])))
               EXCEPT !.call = [vad.call EXCEPT !.pc = "catchClose"]]

\* the stop in start's catch resumes after audioContext.close()
StartCaught ==
  /\ vad.call.op = "start" /\ vad.call.pc = "catchClose"
  /\ \E destroyOk \in DestroyOutcomes :
       vad' = [stopRelease(vad, destroyOk) EXCEPT
                 !.ret = "original", !.call = NoCall]

\* stopVadNoiseSuppression() is called
StopCall ==
  /\ vad.call = NoCall
  /\ \E destroyOk \in DestroyOutcomes :
       IF vad.audioContext # 0
         THEN vad' = [stopNodes(vad) EXCEPT
                        !.ret = "none",
                        !.call = [op |-> "stop", pc |-> "stopClose",
                                  track |-> vad.originalTrack]]
         ELSE vad' = [StopThrough(vad, destroyOk) EXCEPT
                        !.ret = vad.originalTrack]

\* stop resumes after audioContext.close()
StopAfterClose ==
  /\ vad.call.op = "stop" /\ vad.call.pc = "stopClose"
  /\ \E destroyOk \in DestroyOutcomes :
       vad' = [stopRelease(vad, destroyOk) EXCEPT
                 !.ret = vad.call.track, !.call = NoCall]

\* Calls that overlap.  Every call of startVadNoiseSuppression or
\* stopVadNoiseSuppression is an entry of vad.calls: what was called, the
\* await it is suspended at (pc) or "done", the track it was given, the
\* rawTrack a stop read on entry, and what it returned.  A call runs from
\* one await that needs the browser (audioContext.close(), the first load of
\* the WASM module) to the next without another call running in between.
\* given is the track of the start called last, "null" once a stop has run
\* to its end; returned is the last return.
MaxCalls == 3

\* whether _rnnoise_destroy returns (TRUE) or throws (FALSE)
StopOutcomes == BOOLEAN

NewCall(op, track, raw, expect) ==
  [op |-> op, pc |-> "stopClose", track |-> track, raw |-> raw,
   ret |-> "none", expect |-> expect]

\* call i returns ret
Return(v, i, ret) ==
  [v EXCEPT !.calls[i].pc = "done", !.calls[i].ret = ret,
            !.returned = [n |-> v.returned.n + 1, op |-> v.calls[i].op,
                          ret |-> ret, expect |-> v.calls[i].expect],
            !.given = IF v.calls[i].op = "stop" \/ ret = "original"
                        THEN "null" ELSE @]

\* startVadNoiseSuppression from `isActive = true` back to the load's return
built(v, i) ==
  Return([startBuild(v) EXCEPT !.ret = v.ret], i, "processed")

\* startVadNoiseSuppression after `await stopVadNoiseSuppression()`: the
\* module that is already loaded is returned at once
afterFirstStop(v, i) ==
  LET v1 == [v EXCEPT !.originalTrack = v.calls[i].track]
  IN IF v1.rnnoiseModule THEN built(v1, i)
     ELSE [v1 EXCEPT !.calls[i].pc = "load"]

\* startVadNoiseSuppression(track) is called
BeginStart ==
  /\ Len(vad.calls) < MaxCalls
  /\ \E track \in Tracks, destroyOk \in StopOutcomes :
       LET i == Len(vad.calls) + 1
           v == [vad EXCEPT !.calls = Append(@, NewCall("start", track,
                                                       "null", "none")),
                            !.given = track]
       IN vad' = IF vad.audioContext # 0 THEN stopNodes(v)
                 ELSE afterFirstStop(StopThrough(v, destroyOk), i)

\* stopVadNoiseSuppression() is called
BeginStop ==
  /\ Len(vad.calls) < MaxCalls
  /\ \E destroyOk \in StopOutcomes :
       LET i == Len(vad.calls) + 1
           v == [vad EXCEPT !.calls = Append(@, NewCall("stop", "null",
                                              vad.originalTrack, vad.given))]
       IN vad' = IF vad.audioContext # 0 THEN stopNodes(v)
                 ELSE Return(StopThrough(v, destroyOk), i, vad.originalTrack)

\* audioContext.close() settles, resolved or rejected, for the stop at the
\* head of a start
ResumeStart(i) ==
  /\ vad.calls[i].op = "start" /\ vad.calls[i].pc = "stopClose"
  /\ \E destroyOk \in StopOutcomes :
       vad' = afterFirstStop(stopRelease(vad, destroyOk), i)

\* audioContext.close() settles, resolved or rejected, for a stop
ResumeStop(i) ==
  /\ vad.calls[i].op = "stop" /\ vad.calls[i].pc = "stopClose"
  /\ \E destroyOk \in StopOutcomes :
       vad' = Return(stopRelease(vad, destroyOk), i, vad.calls[i].raw)

\* loadRnnoiseModule() resolves
ResumeLoad(i) ==
  /\ vad.calls[i].pc = "load"
  /\ vad' = built(vad, i)

\* loadRnnoiseModule() rejects: catch, stop, return the given track
LoadFails(i) ==
  /\ vad.calls[i].pc = "load"
  /\ \E destroyOk \in StopOutcomes :
       vad' = IF vad.audioContext # 0
                THEN [stopNodes(vad) EXCEPT !.calls[i].pc = "catchClose"]
                ELSE Return(StopThrough(vad, destroyOk), i, "original")

\* audioContext.close() settles for the stop in start's catch
ResumeCatch(i) ==
  /\ vad.calls[i].pc = "catchClose"
  /\ \E destroyOk \in StopOutcomes :
       vad' = Return(stopRelease(vad, destroyOk), i, "original")

\* no call is suspended
Idle == \A i \in DOMAIN vad.calls : vad.calls[i].pc = "done"

\* a step of lib/noise.ts
NoiseStep(n) == vad' = [vad EXCEPT !.noise = n]

\* startNoiseSuppression(track) is called in a browser with or without
\* Insertable Streams and AudioWorklet
NoiseStart ==
  /\ vad.noise.call = NoNoiseCall
  /\ vad.noise.calls < MaxNoiseCalls
  /\ \E track \in NoiseTracks, insertable \in BOOLEAN, worklet \in BOOLEAN :
       LET n == [noiseStopNodes(vad.noise) EXCEPT
                   !.calls = @ + 1,
                   !.call = [op |-> "start", pc |-> "stopClose",
                             track |-> track, raw |-> vad.noise.originalTrack,
                             worklet |-> worklet]]
       IN IF vad.noise.audioContext
            THEN NoiseStep([n EXCEPT !.call.pc =
                              IF insertable THEN "stopCloseI" ELSE "stopClose"])
            ELSE NoiseStep(noiseAfterStop(noiseStopReset(n), insertable))

\* audioContext.close() settles for the stop at the head of a start
NoiseStartAfterClose ==
  /\ vad.noise.call.op = "start"
  /\ vad.noise.call.pc \in {"stopClose", "stopCloseI"}
  /\ NoiseStep(noiseAfterStop(noiseStopReset(vad.noise),
                              vad.noise.call.pc = "stopCloseI"))

\* shiguredoProcessor.startProcessing(track) resolves
InsertableResolves ==
  /\ vad.noise.call.pc = "startProcessing"
  /\ NoiseStep(noiseReturn([vad.noise EXCEPT !.processedTrack = "processed",
                                             !.activeMethod = "insertable"],
                           "processed"))

\* shiguredoProcessor.startProcessing(track) rejects: the catch falls
\* through to AudioWorklet
InsertableRejects ==
  /\ vad.noise.call.pc = "startProcessing"
  /\ NoiseStep(workletStage(vad.noise))

\* loadRnnoise resolves: `await audioContext.audioWorklet.addModule`
RnnoiseLoaded ==
  /\ vad.noise.call.pc = "loadRnnoise"
  /\ NoiseStep([vad.noise EXCEPT !.call.pc = "addModule"])

\* addModule resolves and the graph is built: startWorkletNoiseSuppression
\* returns the destination's track
WorkletBuilt ==
  /\ vad.noise.call.pc = "addModule"
  /\ NoiseStep(noiseReturn([vad.noise EXCEPT
                              !.sourceNode = TRUE, !.rnnoiseNode = TRUE,
                              !.destinationNode = TRUE,
                              !.processedTrack = "processed",
                              !.activeMethod = "worklet"],
                           "processed"))

\* loadRnnoise or addModule rejects, or the RnnoiseWorkletNode constructor
\* throws once the source node exists
WorkletFails ==
  /\ vad.noise.call.pc \in {"loadRnnoise", "addModule"}
  /\ \E sourceMade \in BOOLEAN :
       /\ sourceMade => vad.noise.call.pc = "addModule"
       /\ NoiseStep(workletFailed(vad.noise, sourceMade))

\* stopNoiseSuppression() is called
NoiseStop ==
  /\ vad.noise.call = NoNoiseCall
  /\ vad.noise.calls < MaxNoiseCalls
  /\ LET n == [noiseStopNodes(vad.noise) EXCEPT
                 !.calls = @ + 1,
                 !.call = [op |-> "stop", pc |-> "stopClose", track |-> "null",
                           raw |-> vad.noise.originalTrack, worklet |-> FALSE]]
     IN IF vad.noise.audioContext THEN NoiseStep(n)
        ELSE NoiseStep(noiseReturn(noiseStopReset(n), n.call.raw))

\* audioContext.close() settles for a stop
NoiseStopAfterClose ==
  /\ vad.noise.call.op = "stop" /\ vad.noise.call.pc = "stopClose"
  /\ NoiseStep(noiseReturn(noiseStopReset(vad.noise), vad.noise.call.raw))


(***************************************************************************)
(* Room orchestrator (routes/r/+page.svelte) with its mesh connections     *)
(* (lib/rtc.ts) and screen-share connections (lib/screen.ts).  A Map is a  *)
(* function on its key set.  A handler yields the client state it leaves   *)
(* and the frames it passed to socket.send, in order; an await on the      *)
(* browser leaves a task that a later step resumes.                        *)
(***************************************************************************)
\* frames the relay sent to each client that the client has not handled
VARIABLE inbox
\* frames each client passed to socket.send that the relay has not handled
VARIABLE up
\* the page state of each client
VARIABLE cl

\* the audio tracks of a page: the track of createGainProcessedStream and
\* the track startNoiseSuppression returns; NoTrack for a connection
\* without an audio sender
GainTrack == "gain"
SuppressedTrack == "suppressed"
NoTrack == "none"

\* the audio input devices of a page, the first being the one initAudio
\* opens
Devices == {"mic1", "mic2"}

EmptyMap == [k \in {} |-> TRUE]

Has(m, k) == k \in DOMAIN m

\* Map.set
Put(m, k, v) == [x \in DOMAIN m \cup {k} |-> IF x = k THEN v ELSE m[x]]

\* Map.delete
Del(m, k) == [x \in DOMAIN m \ {k} |-> m[x]]

R(st, out) == [st |-> st, out |-> out]

\* the PeerState literal of connectToPeer
PeerState(name, isScreenSharing) ==
  [name |-> name, muted |-> FALSE, cameraEnabled |-> FALSE,
   cameraStream |-> FALSE, screenSharing |-> isScreenSharing,
   screenStream |-> FALSE, screenSubscribed |-> FALSE]

\* new PeerConnection(...): the RTCPeerConnection starts stable, without a
\* remote description; videoLine tells whether the session has a video
\* section, negotiationNeeded whether the browser owes a negotiationneeded
\* event; initiator records the argument connectToPeer was called with,
\* connected whether connectionState has been "connected"; videoSender
\* tells whether the field videoSender holds a sender, videoTracks counts
\* the senders of the RTCPeerConnection that carry a video track, and
\* refused tells whether addVideoTrack has returned at its guard
NewPeerConnection(initiator) ==
  [signalingState |-> "stable", remoteDescription |-> FALSE,
   videoSender |-> FALSE, videoLine |-> FALSE, negotiationNeeded |-> FALSE,
   initiator |-> initiator, connected |-> FALSE, audioTrack |-> NoTrack,
   videoTracks |-> 0, refused |-> FALSE]

\* PeerConnection.addLocalStream for the one audio track of localStream
addLocalStream(pc, track) == [pc EXCEPT !.audioTrack = track]

\* PeerConnection.replaceAudioTrack
replaceAudioTrack(pc, newTrack) ==
  IF pc.audioTrack # NoTrack THEN [pc EXCEPT !.audioTrack = newTrack] ELSE pc

\* PeerConnection.hasVideoTrack
hasVideoTrack(pc) == pc.videoSender

\* addVideoTrack without `if (this.videoSender) return`
addVideoTrackUnguarded(pc) ==
  [pc EXCEPT !.videoSender = TRUE, !.videoTracks = @ + 1,
             !.negotiationNeeded = TRUE]

\* PeerConnection.addVideoTrack
addVideoTrack(pc) ==
  IF pc.videoSender THEN [pc EXCEPT !.refused = TRUE]
  ELSE [pc EXCEPT !.videoSender = TRUE, !.videoTracks = @ + 1,
                  !.negotiationNeeded = TRUE]

\* PeerConnection.removeVideoTrack
removeVideoTrack(pc) ==
  IF pc.videoSender
    THEN [pc EXCEPT !.videoSender = FALSE, !.videoTracks = @ - 1,
                    !.negotiationNeeded = TRUE]
    ELSE pc

\* a suspended await: what it waits for, the peer it concerns and, for the
\* welcome loop, the roster entries still to visit
Task(kind, peer, rest) == [kind |-> kind, peer |-> peer, rest |-> rest]

\* tasks whose RTCPeerConnection was closed never resume
DropTasks(tasks, kinds, peer) ==
  LET keep == {t \in BagToSet(tasks) : ~(t.kind \in kinds /\ t.peer = peer)}
  IN [t \in keep |-> tasks[t]]

\* screenShareManager = null
NoManager == [live |-> FALSE, stream |-> FALSE, subscribers |-> EmptyMap]

\* the page state before connectToRoom; screenOrphans and viewerOrphans keep
\* the peers of the screen-share connections that were dropped without
\* close(), as orphans does for the mesh; captures counts the capture
\* streams getDisplayMedia returned whose tracks were not stopped; asked
\* keeps the peers whose screen-subscribe the page handled while sharing
ClientInit ==
  [myId |-> NoId, myName |-> <<>>, displayName |-> <<>>,
   peers |-> EmptyMap, connections |-> EmptyMap, orphans |-> {},
   cameraEnabled |-> FALSE, screenSharing |-> FALSE,
   screenShareManager |-> NoManager, screenViewerConnections |-> EmptyMap,
   screenOrphans |-> {}, viewerOrphans |-> {}, captures |-> 0,
   tasks |-> EmptyBag, introduced |-> {}, asked |-> {}, fed |-> {},
   localStream |-> GainTrack, noiseFilterEnabled |-> FALSE,
   selectedDeviceId |-> "mic1"]

\* connectToPeer after its guard: the PeerState, the PeerConnection,
\* connections.set, the camera track and, for the initiator, the call of
\* createOffer.  A PeerConnection that connections.set replaces was never
\* closed: orphans keeps its peer id.
openConnection(cs, peerId, name, initiator, isScreenSharing, rest) ==
  LET pc0 == addLocalStream(NewPeerConnection(initiator), cs.localStream)
      pc1 == IF cs.cameraEnabled THEN addVideoTrack(pc0) ELSE pc0
      pc == IF initiator THEN [pc1 EXCEPT !.negotiationNeeded = FALSE] ELSE pc1
  IN [cs EXCEPT
        !.peers = Put(@, peerId, PeerState(name, isScreenSharing)),
        !.orphans = IF Has(cs.connections, peerId) THEN @ \cup {peerId} ELSE @,
        !.connections = Put(@, peerId, pc),
        !.tasks = IF initiator
                    THEN @ (+) SetToBag({Task("offer", peerId, rest)})
                    ELSE @]

\* connectToPeer without `if (connections.has(peerId)) return`
connectToPeerUnguarded(cs, peerId, name, initiator, isScreenSharing, rest) ==
  [st |-> openConnection(cs, peerId, name, initiator, isScreenSharing, rest),
   suspended |-> initiator]

\* connectToPeer(peerId, name, initiator, isScreenSharing); rest is what the
\* caller does after the await
connectToPeer(cs, peerId, name, initiator, isScreenSharing, rest) ==
  IF Has(cs.connections, peerId) THEN [st |-> cs, suspended |-> FALSE]
  ELSE [st |-> openConnection(cs, peerId, name, initiator, isScreenSharing, rest),
        suspended |-> initiator]

\* case "welcome": for (const peer of data.peers) await connectToPeer(...)
RECURSIVE welcomeLoop(_, _)
welcomeLoop(cs, roster) ==
  IF roster = <<>> THEN cs
  ELSE LET p == Head(roster)
           r == connectToPeer(cs, p.id, p.name, TRUE, p.screenSharing,
                              Tail(roster))
       IN IF r.suspended THEN r.st ELSE welcomeLoop(r.st, Tail(roster))

\* PeerConnection.createOffer once the browser has produced the offer:
\* setLocalDescription(offer)
createOffer(pc) ==
  [pc EXCEPT !.signalingState = "have-local-offer",
             !.videoLine = pc.videoLine \/ pc.videoSender]

\* PeerConnection.handleOffer on a connection that accepts the offer
acceptOffer(pc, offer) ==
  LET line == pc.videoLine \/ offer.flag
  IN [pc EXCEPT !.signalingState = "stable", !.remoteDescription = TRUE,
                !.videoLine = line,
                !.negotiationNeeded =
                  (pc.negotiationNeeded \/ pc.signalingState = "have-local-offer")
                  /\ ~line]

\* PeerConnection.handleOffer: the connections it can leave and whether it
\* returned an answer.  With an offer of its own pending the browser either
\* rejects setRemoteDescription or rolls the local offer back.
pcHandleOffer(pc, offer) ==
  IF pc.signalingState = "stable"
    THEN {[pc |-> acceptOffer(pc, offer), answered |-> TRUE]}
    ELSE {[pc |-> pc, answered |-> FALSE],
          [pc |-> acceptOffer(pc, offer), answered |-> TRUE]}

\* handleOffer(from, offer)
handleOffer(cs, from, offer) ==
  IF ~Has(cs.connections, from) /\ ~Has(cs.peers, from) THEN {R(cs, <<>>)}
  ELSE
    LET cs1 == IF Has(cs.connections, from) THEN cs
               ELSE connectToPeer(cs, from, cs.peers[from].name, FALSE, FALSE,
                                  <<>>).st
    IN { R([cs1 EXCEPT !.connections[from] = o.pc],
           IF o.answered
             THEN <<[Msg("answer") EXCEPT !.to = from,
                                           !.flag = o.pc.videoSender]>>
             ELSE <<>>)
         : o \in pcHandleOffer(cs1.connections[from], offer) }

\* handleAnswer(from, answer): setRemoteDescription(answer) is rejected
\* unless an offer of this side is pending
handleAnswer(cs, from) ==
  IF Has(cs.connections, from)
       /\ cs.connections[from].signalingState = "have-local-offer"
    THEN [cs EXCEPT !.connections[from].signalingState = "stable",
                    !.connections[from].remoteDescription = TRUE]
    ELSE cs

\* disconnectFromPeer without peers.delete(peerId)
disconnectKeepsPeer(cs, peerId) ==
  [cs EXCEPT !.connections = Del(@, peerId),
             !.tasks = IF Has(cs.connections, peerId)
                         THEN DropTasks(@, {"offer"}, peerId) ELSE @]

\* disconnectFromPeer(peerId)
disconnectFromPeer(cs, peerId) ==
  [cs EXCEPT !.connections = Del(@, peerId),
             !.tasks = IF Has(cs.connections, peerId)
                         THEN DropTasks(@, {"offer"}, peerId) ELSE @,
             !.peers = Del(@, peerId)]

\* for (const pc of connections.values()) pc.removeVideoTrack()
removeAllVideo(cs) ==
  [k \in DOMAIN cs.connections |-> removeVideoTrack(cs.connections[k])]

\* for (const pc of connections.values()) pc.addVideoTrack(videoTrack, ...)
addAllVideo(cs) ==
  [k \in DOMAIN cs.connections |-> addVideoTrack(cs.connections[k])]

\* for (const pc of connections.values()) await pc.replaceAudioTrack(newTrack)
replaceAllAudio(cs, newTrack) ==
  [k \in DOMAIN cs.connections |-> replaceAudioTrack(cs.connections[k], newTrack)]

\* switchAudioDevice(deviceId); ok tells whether getUserMedia granted the
\* device
switchAudioDevice(cs, deviceId, ok) ==
  IF deviceId = cs.selectedDeviceId \/ ~ok THEN cs
  ELSE [cs EXCEPT !.localStream = GainTrack,
                  !.selectedDeviceId = deviceId,
                  !.connections = replaceAllAudio(cs, GainTrack)]

\* toggleNoiseFilter(); ok tells whether startNoiseSuppression, or
\* stopNoiseSuppression and getUserMedia, fulfilled
toggleNoiseFilter(cs, ok) ==
  IF ~ok THEN cs
  ELSE IF ~cs.noiseFilterEnabled
    THEN [cs EXCEPT !.localStream = SuppressedTrack,
                    !.noiseFilterEnabled = TRUE,
                    !.connections = replaceAllAudio(cs, SuppressedTrack)]
    ELSE [cs EXCEPT !.localStream = GainTrack,
                    !.noiseFilterEnabled = FALSE,
                    !.connections = replaceAllAudio(cs, GainTrack)]

\* toggleCamera() up to its await
toggleCamera(cs) ==
  IF cs.cameraEnabled
    THEN R([cs EXCEPT !.cameraEnabled = FALSE,
                      !.connections = removeAllVideo(cs)],
           <<[Msg("camera-status") EXCEPT !.peerId = cs.myId, !.flag = FALSE]>>)
    ELSE R([cs EXCEPT !.tasks = @ (+) SetToBag({Task("camera", NoId, <<>>)})],
           <<>>)

\* toggleCamera() after `await getCameraStream()`: ok tells whether the
\* browser granted the camera
cameraResolved(cs, ok) ==
  LET cs1 == [cs EXCEPT !.tasks = @ (-) SetToBag({Task("camera", NoId, <<>>)})]
  IN IF ok
       THEN R([cs1 EXCEPT !.cameraEnabled = TRUE,
                          !.connections = addAllVideo(cs)],
              <<[Msg("camera-status") EXCEPT !.peerId = cs.myId, !.flag = TRUE]>>)
       ELSE R([cs1 EXCEPT !.cameraEnabled = FALSE], <<>>)

\* the onNegotiationNeeded callback of connectToPeer once it is past its two
\* guards: the call of pc.createOffer()
onNegotiationNeeded(cs, peerId) ==
  [cs EXCEPT !.connections[peerId].negotiationNeeded = FALSE,
             !.tasks = @ (+) SetToBag({Task("offer", peerId, <<>>)})]

\* the continuation of `await pc.createOffer()`, in connectToPeer and in the
\* onNegotiationNeeded callback: the offer is sent, the welcome loop goes on
offerCreated(cs, t) ==
  LET cs1 == [cs EXCEPT !.tasks = @ (-) SetToBag({t}),
                        !.connections[t.peer] = createOffer(@)]
  IN R(welcomeLoop(cs1, t.rest),
       <<[Msg("offer") EXCEPT !.to = t.peer,
                              !.flag = cs1.connections[t.peer].videoLine]>>)

\* `await pc.createOffer()` rejects. In connectToPeer the rejection leaves
\* through the welcome loop and the message listener, neither of which
\* catches it, so the roster entries in t.rest are not visited; in the
\* onNegotiationNeeded callback the catch block logs it
offerFailed(cs, t) ==
  R([cs EXCEPT !.tasks = @ (-) SetToBag({t})], <<>>)

\* ScreenShareManager.stop(): the subscriber connections are closed
managerStop(cs) ==
  [cs EXCEPT !.captures = IF cs.screenShareManager.stream THEN @ - 1 ELSE @,
             !.screenShareManager.stream = FALSE,
             !.screenShareManager.subscribers = EmptyMap,
             !.tasks = [t \in {u \in BagToSet(cs.tasks) : u.kind # "subscriber"}
                          |-> cs.tasks[t]]]

\* a pending ScreenShareManager.start() whose manager is no longer the one
\* in screenShareManager
Retag(tasks) ==
  LET n == CopiesIn(Task("screen", "cur", <<>>), tasks)
      others == [t \in BagToSet(tasks) \ {Task("screen", "cur", <<>>)}
                   |-> tasks[t]]
  IN IF n = 0 THEN tasks
     ELSE others (+) [t \in {Task("screen", "old", <<>>)} |-> n]

\* toggleScreenShare() up to its await
toggleScreenShare(cs) ==
  IF cs.screenSharing
    THEN LET cs1 == IF cs.screenShareManager.live THEN managerStop(cs) ELSE cs
         IN R([cs1 EXCEPT !.screenShareManager = NoManager,
                          !.screenSharing = FALSE],
              <<[Msg("screen-stop") EXCEPT !.peerId = cs.myId]>>)
    ELSE R([cs EXCEPT
              !.screenOrphans = @ \cup DOMAIN cs.screenShareManager.subscribers,
              !.screenShareManager =
                 [live |-> TRUE, stream |-> FALSE, subscribers |-> EmptyMap],
              !.tasks = Retag(@) (+) SetToBag({Task("screen", "cur", <<>>)})],
           <<>>)

\* toggleScreenShare() after `await screenShareManager.start()`: ok tells
\* whether getDisplayMedia returned a stream
screenResolved(cs, t, ok) ==
  LET cs1 == [cs EXCEPT !.tasks = @ (-) SetToBag({t})]
  IN IF ok
       THEN R([cs1 EXCEPT !.screenSharing = TRUE,
                 !.captures = @ + 1,
                 !.screenShareManager.stream =
                    IF t.peer = "cur" /\ cs.screenShareManager.live
                      THEN TRUE ELSE @],
              <<[Msg("screen-start") EXCEPT !.peerId = cs.myId]>>)
       ELSE R([cs1 EXCEPT
                 !.screenOrphans = @ \cup DOMAIN cs.screenShareManager.subscribers,
                 !.screenShareManager = NoManager], <<>>)

\* the onended handler ScreenShareManager.start installs, with the onEnded
\* callback of toggleScreenShare
screenEnded(cs) ==
  R([managerStop(cs) EXCEPT !.screenSharing = FALSE],
    <<[Msg("screen-stop") EXCEPT !.peerId = cs.myId]>>)

\* removeSubscriber closing every subscriber connection, as stop() does
removeSubscriberAll(cs, subscriberId) ==
  IF Has(cs.screenShareManager.subscribers, subscriberId)
    THEN [cs EXCEPT !.screenShareManager.subscribers = EmptyMap,
                    !.tasks = [t \in {u \in BagToSet(cs.tasks) :
                                        u.kind # "subscriber"} |-> cs.tasks[t]]]
    ELSE cs

\* ScreenShareManager.removeSubscriber
removeSubscriber(cs, subscriberId) ==
  IF Has(cs.screenShareManager.subscribers, subscriberId)
    THEN [cs EXCEPT !.screenShareManager.subscribers = Del(@, subscriberId),
                    !.tasks = DropTasks(@, {"subscriber"}, subscriberId)]
    ELSE cs

\* case "screen-subscribe" without its guard and without the stream check
\* of addSubscriber
screenSubscribeAlways(cs, from) ==
  [cs EXCEPT
     !.screenShareManager.subscribers =
        Put(@, from, [signalingState |-> "stable",
                      remoteDescription |-> FALSE]),
     !.tasks = DropTasks(@, {"subscriber"}, from)
                 (+) SetToBag({Task("subscriber", from, <<>>)})]

\* case "screen-subscribe", up to the await inside addSubscriber
screenSubscribe(cs, from) ==
  IF cs.screenShareManager.live /\ cs.screenSharing
       /\ cs.screenShareManager.stream
    THEN [cs EXCEPT
            !.screenShareManager.subscribers =
               Put(@, from, [signalingState |-> "stable",
                             remoteDescription |-> FALSE]),
            !.tasks = DropTasks(@, {"subscriber"}, from)
                        (+) SetToBag({Task("subscriber", from, <<>>)})]
    ELSE cs

\* case "screen-subscribe" after `await screenShareManager.addSubscriber`
subscriberOffered(cs, t) ==
  R([cs EXCEPT !.tasks = @ (-) SetToBag({t}),
               !.screenShareManager.subscribers =
                  IF Has(@, t.peer)
                    THEN [@ EXCEPT ![t.peer].signalingState = "have-local-offer"]
                    ELSE @],
    <<[Msg("screen-offer") EXCEPT !.to = t.peer]>>)

\* case "screen-answer": ScreenShareManager.handleAnswer
screenAnswer(cs, from) ==
  IF cs.screenShareManager.live
       /\ Has(cs.screenShareManager.subscribers, from)
       /\ cs.screenShareManager.subscribers[from].signalingState
            = "have-local-offer"
    THEN [cs EXCEPT
            !.screenShareManager.subscribers[from] =
               [signalingState |-> "stable", remoteDescription |-> TRUE]]
    ELSE cs

\* case "screen-offer": ScreenViewerConnection.handleOffer, whose
\* setRemoteDescription fires ontrack for the sharer's track (the onTrack
\* callback of subscribeToScreen stores the stream if the peer is known),
\* and the answer
screenOffer(cs, from) ==
  IF Has(cs.screenViewerConnections, from)
    THEN R([cs EXCEPT
              !.screenViewerConnections[from].remoteDescription = TRUE,
              !.peers = IF Has(cs.peers, from)
                          THEN [@ EXCEPT ![from].screenStream = TRUE]
                          ELSE @],
           <<[Msg("screen-answer") EXCEPT !.to = from]>>)
    ELSE R(cs, <<>>)

\* the candidate of a screen-ice frame, known by the connection whose
\* onicecandidate produced it: the sharer's ScreenShareConnection or the
\* subscriber's ScreenViewerConnection
SharerSide == "sharer"

ViewerSide == "viewer"

\* case "screen-ice": ScreenShareManager.handleIceCandidate, then
\* ScreenViewerConnection.addIceCandidate; fed records which connection of
\* the page was given which candidate
screenIce(cs, from, candidate) ==
  LET toSubscriber ==
        IF cs.screenShareManager.live
             /\ Has(cs.screenShareManager.subscribers, from)
          THEN {[conn |-> "subscriber", peer |-> from, candidate |-> candidate]}
          ELSE {}
      toViewer ==
        IF Has(cs.screenViewerConnections, from)
          THEN {[conn |-> "viewer", peer |-> from, candidate |-> candidate]}
          ELSE {}
  IN [cs EXCEPT !.fed = @ \cup toSubscriber \cup toViewer]

\* case "screen-stop"
screenStop(cs, peerId) ==
  [cs EXCEPT
     !.peers = IF Has(cs.peers, peerId)
                 THEN [@ EXCEPT ![peerId].screenSharing = FALSE,
                                ![peerId].screenStream = FALSE,
                                ![peerId].screenSubscribed = FALSE]
                 ELSE @,
     !.screenViewerConnections = Del(@, peerId)]

\* subscribeToScreen with its unsubscribe branch taken whatever
\* screenSubscribed holds
subscribeToScreenAlways(cs, peerId) ==
  IF ~Has(cs.peers, peerId) \/ ~cs.peers[peerId].screenSharing THEN R(cs, <<>>)
  ELSE R([cs EXCEPT !.screenViewerConnections = Del(@, peerId),
                    !.peers[peerId].screenSubscribed = FALSE,
                    !.peers[peerId].screenStream = FALSE],
         <<[Msg("screen-unsubscribe") EXCEPT !.to = peerId]>>)

\* subscribeToScreen(peerId)
subscribeToScreen(cs, peerId) ==
  IF ~Has(cs.peers, peerId) \/ ~cs.peers[peerId].screenSharing THEN R(cs, <<>>)
  ELSE IF cs.peers[peerId].screenSubscribed
    THEN R([cs EXCEPT !.screenViewerConnections = Del(@, peerId),
                      !.peers[peerId].screenSubscribed = FALSE,
                      !.peers[peerId].screenStream = FALSE],
           <<[Msg("screen-unsubscribe") EXCEPT !.to = peerId]>>)
    ELSE R([cs EXCEPT
              !.viewerOrphans = IF Has(cs.screenViewerConnections, peerId)
                                  THEN @ \cup {peerId} ELSE @,
              !.screenViewerConnections =
                 Put(@, peerId, [remoteDescription |-> FALSE]),
              !.peers[peerId].screenSubscribed = TRUE],
           <<[Msg("screen-subscribe") EXCEPT !.to = peerId]>>)

\* peers.set(id, {...peer, [field]: value}) when the peer is known
setPeer(cs, peerId, field, value) ==
  IF Has(cs.peers, peerId)
    THEN [cs EXCEPT !.peers[peerId] = [@ EXCEPT ![field] = value]]
    ELSE cs

\* case "welcome"
onWelcome(cs, data) ==
  LET saved == cs.displayName
      cs1 == [cs EXCEPT !.myId = data.peerId, !.myName = data.name]
  IN R(welcomeLoop(cs1, data.peers),
       IF saved # <<>> /\ Trim(saved) # <<>> /\ saved # data.name
         THEN <<[Msg("rename-request") EXCEPT !.name = saved]>>
         ELSE <<>>)

\* case "join" with connectToPeer(data.peerId, data.name, true)
onJoinInitiator(cs, data) ==
  R(connectToPeer(cs, data.peerId, data.name, TRUE, FALSE, <<>>).st, <<>>)

\* case "join"
onJoin(cs, data) ==
  R(connectToPeer(cs, data.peerId, data.name, FALSE, FALSE, <<>>).st, <<>>)

\* case "rename"
onRename(cs, data) ==
  IF data.peerId = cs.myId
    THEN [cs EXCEPT !.myName = data.name, !.displayName = data.name]
    ELSE setPeer(cs, data.peerId, "name", data.name)

\* commitEditName() with nameDraft in the input box
commitEditName(cs, nameDraft) ==
  LET desired == Trim(nameDraft)
  IN IF desired = <<>> THEN R(cs, <<>>)
     ELSE R(cs, <<[Msg("rename-request") EXCEPT !.name = desired]>>)

\* socket.addEventListener('message', ...): the outcomes of handling data
onSocketMessage(cs, data) ==
  LET t == data.type
  IN IF t = "welcome" THEN {onWelcome(cs, data)}
     ELSE IF t = "join" THEN {onJoin(cs, data)}
     ELSE IF t = "leave" THEN {R(disconnectFromPeer(cs, data.peerId), <<>>)}
     ELSE IF t = "offer" THEN handleOffer(cs, data.from, data)
     ELSE IF t = "answer" THEN {R(handleAnswer(cs, data.from), <<>>)}
     ELSE IF t = "rename" THEN {R(onRename(cs, data), <<>>)}
     ELSE IF t = "mute-status"
       THEN {R(setPeer(cs, data.peerId, "muted", data.flag), <<>>)}
     ELSE IF t = "camera-status"
       THEN {R(setPeer(cs, data.peerId, "cameraEnabled", data.flag), <<>>)}
     ELSE IF t = "screen-start"
       THEN {R(setPeer(cs, data.peerId, "screenSharing", TRUE), <<>>)}
     ELSE IF t = "screen-stop" THEN {R(screenStop(cs, data.peerId), <<>>)}
     ELSE IF t = "screen-subscribe" THEN {R(screenSubscribe(cs, data.from), <<>>)}
     ELSE IF t = "screen-unsubscribe"
       THEN {R(IF cs.screenShareManager.live
                 THEN removeSubscriber(cs, data.from) ELSE cs, <<>>)}
     ELSE IF t = "screen-offer" THEN {screenOffer(cs, data.from)}
     ELSE IF t = "screen-answer" THEN {R(screenAnswer(cs, data.from), <<>>)}
     ELSE IF t = "screen-ice" THEN {R(screenIce(cs, data.from, data.body), <<>>)}
     ELSE {R(cs, <<>>)}

(***************************************************************************)
(* Specifications                                                          *)
(***************************************************************************)
vars == <<peers, screenSharers, last, count, vad, inbox, up, cl>>

clientVars == <<inbox, up, cl>>

Init ==
  /\ peers = <<>>
  /\ screenSharers = {}
  /\ last = Last("init", NoId, Msg("none"), <<>>)
  /\ count = [renames |-> 0, connects |-> 0, closes |-> 0, camera |-> 0,
              screen |-> 0, subs |-> 0, shares |-> 0, watch |-> 0, ice |-> 0,
              audio |-> 0]
  /\ vad = VadInit
  /\ inbox = [p \in Ids |-> <<>>]
  /\ up = [p \in Ids |-> <<>>]
  /\ cl = [p \in Ids |-> ClientInit]

\* the relay alone, its clients being any senders of rename-request
RelayConnect(p) ==
  /\ ~HasPeer(peers, p)
  /\ OnConnect(p)
  /\ UNCHANGED <<count, vad, clientVars>>

RelayRename(p) ==
  /\ HasPeer(peers, p)
  /\ count.renames < MaxRenames
  /\ \E raw \in RawNames :
       RenameRequest(p, [Msg("rename-request") EXCEPT !.name = raw])
  /\ count' = [count EXCEPT !.renames = count.renames + 1]
  /\ UNCHANGED <<vad, clientVars>>

RelayClose(p) ==
  /\ HasPeer(peers, p)
  /\ OnClose(p)
  /\ UNCHANGED <<count, vad, clientVars>>

NextRelay ==
  \E p \in Ids : RelayConnect(p) \/ RelayRename(p) \/ RelayClose(p)

SpecRelay == Init /\ [][NextRelay]_vars

\* the noise gate alone
VadStep(A) ==
  A /\ UNCHANGED <<peers, screenSharers, last, count, clientVars>>

NextVad ==
  \/ VadStep(StartCall)
  \/ VadStep(StartAfterClose)
  \/ VadStep(StartBuilt)
  \/ VadStep(StartLoadFails)
  \/ VadStep(StartGraphFails)
  \/ VadStep(StartCaught)
  \/ VadStep(StopCall)
  \/ VadStep(StopAfterClose)
  \/ VadStep(ProcessAudio)
  \/ VadStep(SetVadThreshold)

SpecVad == Init /\ [][NextVad]_vars

\* a session whose threshold is set while it gates frames
NextThreshold ==
  \/ VadStep(StartCall)
  \/ VadStep(StartBuilt)
  \/ VadStep(GateBlock)
  \/ VadStep(SetAnyThreshold)
  \/ VadStep(HandleThresholdDrag)

SpecThreshold == Init /\ [][NextThreshold]_vars

\* the circular buffers under the blocks of the host
NextRing ==
  \/ VadStep(RingStart)
  \/ VadStep(RingBlock)

SpecRing == Init /\ [][NextRing]_vars

\* calls of start and stop, each made when the one before has returned
NextVadStop ==
  \/ VadStep(Idle /\ BeginStart)
  \/ VadStep(Idle /\ BeginStop)
  \/ \E i \in DOMAIN vad.calls :
       \/ VadStep(ResumeStart(i))
       \/ VadStep(ResumeStop(i))
       \/ VadStep(ResumeLoad(i))
       \/ VadStep(LoadFails(i))

SpecVadStop == Init /\ [][NextVadStop]_vars

\* calls of start and stop made at any time
NextVadCalls ==
  \/ VadStep(BeginStart)
  \/ VadStep(BeginStop)
  \/ \E i \in DOMAIN vad.calls :
       \/ VadStep(ResumeStart(i))
       \/ VadStep(ResumeStop(i))
       \/ VadStep(ResumeLoad(i))
       \/ VadStep(LoadFails(i))
       \/ VadStep(ResumeCatch(i))

SpecVadCalls == Init /\ [][NextVadCalls]_vars

\* calls of startNoiseSuppression and stopNoiseSuppression, each made when
\* the one before has returned
NextNoise ==
  \/ VadStep(NoiseStart)
  \/ VadStep(NoiseStartAfterClose)
  \/ VadStep(InsertableResolves)
  \/ VadStep(InsertableRejects)
  \/ VadStep(RnnoiseLoaded)
  \/ VadStep(WorkletBuilt)
  \/ VadStep(WorkletFails)
  \/ VadStep(NoiseStop)
  \/ VadStep(NoiseStopAfterClose)

SpecNoise == Init /\ [][NextNoise]_vars

(***************************************************************************)
(* The room: the relay, the sockets and the pages.  Connection ids are     *)
(* handed out in the order of IdOrder; a page whose socket closed keeps    *)
(* its state and its id and may reconnect (PartySocket).                   *)
(***************************************************************************)
IdOrder == <<"A", "B", "C">>

\* socket closes (onClose at the relay) in a run
MaxCloses == 2

\* camera clicks, screen-share clicks and endings, screen-indicator clicks
MaxCamera == 2

MaxScreen == 2

MaxSubs == 2

\* conn.send in order, each frame to the end of its connection's queue
RECURSIVE Deliver(_, _)
Deliver(box, sent) ==
  IF sent = <<>> THEN box
  ELSE Deliver([box EXCEPT ![Head(sent).to] = Append(@, Head(sent).msg)],
               Tail(sent))

\* the peers whose screen-subscribe a page has handled while it was sharing
Asked(cs, data) ==
  IF data.type = "screen-subscribe" /\ cs.screenSharing
    THEN cs.asked \cup {data.from}
    ELSE cs.asked

\* the peers a client has been told of on its present socket
Introduce(known, data) ==
  IF data.type = "welcome" THEN {data.peers[i].id : i \in DOMAIN data.peers}
  ELSE IF data.type = "join" THEN known \cup {data.peerId}
  ELSE IF data.type = "leave" THEN known \ {data.peerId}
  ELSE known

\* the ids that have connected so far
Started == {IdOrder[i] : i \in 1..count.connects}

\* a socket opens: onConnect at the relay, generateName drawing Quiet Ember
Open(p) ==
  /\ ~HasPeer(peers, p)
  /\ OnConnect(p)
  /\ NameOf(peers', p) \in allocateFrom(peers, QuietEmber)
  /\ inbox' = Deliver(inbox, last'.sent)
  /\ UNCHANGED <<up, cl, vad>>

\* connectToRoom on a page that just mounted
Connect(p) ==
  /\ count.connects < Len(IdOrder)
  /\ p = IdOrder[count.connects + 1]
  /\ Open(p)
  /\ count' = [count EXCEPT !.connects = @ + 1]

\* PartySocket reconnecting after its socket closed
Reconnect(p) ==
  /\ p \in Started
  /\ Open(p)
  /\ UNCHANGED count

\* a socket closes: onClose at the relay; the frames in flight are lost
Close(p) ==
  /\ HasPeer(peers, p)
  /\ count.closes < MaxCloses
  /\ OnClose(p)
  /\ inbox' = Deliver([inbox EXCEPT ![p] = <<>>], last'.sent)
  /\ up' = [up EXCEPT ![p] = <<>>]
  /\ count' = [count EXCEPT !.closes = @ + 1]
  /\ UNCHANGED <<cl, vad>>

\* the relay handles the oldest frame of p
RelayReceive(p) ==
  /\ HasPeer(peers, p)
  /\ up[p] # <<>>
  /\ OnMessage(p, Head(up[p]))
  /\ up' = [up EXCEPT ![p] = Tail(@)]
  /\ inbox' = Deliver(inbox, last'.sent)
  /\ UNCHANGED <<cl, count, vad>>

\* a client step that leaves state st and sends out
ClientStep(p, r) ==
  /\ cl' = [cl EXCEPT ![p] = r.st]
  /\ up' = [up EXCEPT ![p] = @ \o r.out]

\* the message listener of p handles its oldest frame
ClientReceive(p) ==
  /\ inbox[p] # <<>>
  /\ \E r \in onSocketMessage(cl[p], Head(inbox[p])) :
       ClientStep(p, R([r.st EXCEPT
                          !.introduced = Introduce(@, Head(inbox[p])),
                          !.asked = Asked(cl[p], Head(inbox[p]))], r.out))
  /\ inbox' = [inbox EXCEPT ![p] = Tail(@)]
  /\ UNCHANGED <<relayVars, last, count, vad>>

\* the browser resolves a pending pc.createOffer()
OfferCreated(p) ==
  /\ \E t \in BagToSet(cl[p].tasks) :
       t.kind = "offer" /\ ClientStep(p, offerCreated(cl[p], t))
  /\ UNCHANGED <<relayVars, last, count, vad, inbox>>

\* the browser rejects a pending pc.createOffer()
OfferFails(p) ==
  /\ \E t \in BagToSet(cl[p].tasks) :
       t.kind = "offer" /\ ClientStep(p, offerFailed(cl[p], t))
  /\ UNCHANGED <<relayVars, last, count, vad, inbox>>

\* the browser fires negotiationneeded; the callback passes its guards. The
\* event is not fired again while the createOffer() of an earlier callback
\* is still pending on the connection
NegotiationNeeded(p) ==
  /\ \E q \in DOMAIN cl[p].connections :
       /\ cl[p].connections[q].negotiationNeeded
       /\ ~\E t \in BagToSet(cl[p].tasks) : t.kind = "offer" /\ t.peer = q
       /\ cl[p].connections[q].signalingState = "stable"
       /\ cl[p].connections[q].remoteDescription
       /\ ClientStep(p, R(onNegotiationNeeded(cl[p], q), <<>>))
  /\ UNCHANGED <<relayVars, last, count, vad, inbox>>

\* the browser reports connectionState "connected" for a mesh connection
\* of p: both ends have applied the other's description
ConnectionStateConnected(p) ==
  /\ \E q \in DOMAIN cl[p].connections :
       /\ ~cl[p].connections[q].connected
       /\ cl[p].connections[q].remoteDescription
       /\ Has(cl[q].connections, p)
       /\ cl[q].connections[p].remoteDescription
       /\ cl' = [cl EXCEPT ![p].connections[q].connected = TRUE]
  /\ UNCHANGED <<relayVars, last, count, vad, inbox, up>>

\* clicks on the noise filter button and choices in the device list
MaxAudio == 3

\* a click on the noise filter button, or the call of onMount, the toggle
\* running to its end
ToggleNoiseFilter(p) ==
  /\ count.audio < MaxAudio
  /\ \E ok \in BOOLEAN : ClientStep(p, R(toggleNoiseFilter(cl[p], ok), <<>>))
  /\ count' = [count EXCEPT !.audio = @ + 1]
  /\ UNCHANGED <<relayVars, last, vad, inbox>>

\* a choice in the list of audio devices, the switch running to its end
SwitchAudioDevice(p) ==
  /\ count.audio < MaxAudio
  /\ \E d \in Devices, ok \in BOOLEAN :
       ClientStep(p, R(switchAudioDevice(cl[p], d, ok), <<>>))
  /\ count' = [count EXCEPT !.audio = @ + 1]
  /\ UNCHANGED <<relayVars, last, vad, inbox>>

\* a click on the camera button
ToggleCamera(p) ==
  /\ HasPeer(peers, p) /\ cl[p].myId = p
  /\ count.camera < MaxCamera
  /\ ClientStep(p, toggleCamera(cl[p]))
  /\ count' = [count EXCEPT !.camera = @ + 1]
  /\ UNCHANGED <<relayVars, last, vad, inbox>>

\* getCameraStream() settles
CameraResolved(p) ==
  /\ BagIn(Task("camera", NoId, <<>>), cl[p].tasks)
  /\ \E ok \in BOOLEAN : ClientStep(p, cameraResolved(cl[p], ok))
  /\ UNCHANGED <<relayVars, last, count, vad, inbox>>

\* a click on the screen-share button
ToggleScreenShare(p) ==
  /\ HasPeer(peers, p) /\ cl[p].myId = p
  /\ count.screen < MaxScreen
  /\ ClientStep(p, toggleScreenShare(cl[p]))
  /\ count' = [count EXCEPT !.screen = @ + 1]
  /\ UNCHANGED <<relayVars, last, vad, inbox>>

\* getDisplayMedia settles
ScreenResolved(p) ==
  /\ \E t \in BagToSet(cl[p].tasks), ok \in BOOLEAN :
       t.kind = "screen" /\ ClientStep(p, screenResolved(cl[p], t, ok))
  /\ UNCHANGED <<relayVars, last, count, vad, inbox>>

\* the user stops the capture from the browser's own control
ScreenEnded(p) ==
  /\ cl[p].screenShareManager.live /\ cl[p].screenShareManager.stream
  /\ count.screen < MaxScreen
  /\ ClientStep(p, screenEnded(cl[p]))
  /\ count' = [count EXCEPT !.screen = @ + 1]
  /\ UNCHANGED <<relayVars, last, vad, inbox>>

\* the browser resolves the createOffer of addSubscriber
SubscriberOffered(p) ==
  /\ \E t \in BagToSet(cl[p].tasks) :
       t.kind = "subscriber" /\ ClientStep(p, subscriberOffered(cl[p], t))
  /\ UNCHANGED <<relayVars, last, count, vad, inbox>>

\* screen-ice frames sent in a run
MaxIce == 2

\* onicecandidate of a ScreenShareConnection whose local description is
\* set: the onIceCandidate callback of toggleScreenShare sends screen-ice
SharerCandidate(p) ==
  /\ cl[p].screenShareManager.live
  /\ count.ice < MaxIce
  /\ \E q \in DOMAIN cl[p].screenShareManager.subscribers :
       /\ \/ cl[p].screenShareManager.subscribers[q].signalingState
               = "have-local-offer"
          \/ cl[p].screenShareManager.subscribers[q].remoteDescription
       /\ ClientStep(p, R(cl[p], <<[Msg("screen-ice") EXCEPT
                                      !.to = q, !.body = SharerSide]>>))
  /\ count' = [count EXCEPT !.ice = @ + 1]
  /\ UNCHANGED <<relayVars, last, vad, inbox>>

\* onicecandidate of a ScreenViewerConnection that has answered: the
\* onIceCandidate callback of subscribeToScreen sends screen-ice
ViewerCandidate(p) ==
  /\ count.ice < MaxIce
  /\ \E q \in DOMAIN cl[p].screenViewerConnections :
       /\ cl[p].screenViewerConnections[q].remoteDescription
       /\ ClientStep(p, R(cl[p], <<[Msg("screen-ice") EXCEPT
                                      !.to = q, !.body = ViewerSide]>>))
  /\ count' = [count EXCEPT !.ice = @ + 1]
  /\ UNCHANGED <<relayVars, last, vad, inbox>>

\* subscribeToScreen(q) is called on the page of p
SubscribeToScreen(p, q) ==
  /\ HasPeer(peers, p) /\ cl[p].myId = p
  /\ count.subs < MaxSubs
  /\ LET r == subscribeToScreen(cl[p], q)
     IN /\ ClientStep(p, r)
        /\ last' = Last("subscribeToScreen", p, [Msg("click") EXCEPT !.to = q],
                        r.out)
  /\ count' = [count EXCEPT !.subs = @ + 1]
  /\ UNCHANGED <<relayVars, vad, inbox>>

\* every frame sent has been handled and no await is pending
Quiet ==
  \A p \in Ids :
    inbox[p] = <<>> /\ up[p] = <<>> /\ cl[p].tasks = EmptyBag

\* the mesh: three pages join, shake hands and leave
Next ==
  \E p \in Ids :
    \/ Connect(p)
    \/ Close(p)
    \/ RelayReceive(p)
    \/ ClientReceive(p)
    \/ OfferCreated(p)

Spec == Init /\ [][Next]_vars

\* three pages join in turn; a createOffer() may be rejected
NextOfferFails ==
  \E p \in Ids :
    \/ Connect(p)
    \/ RelayReceive(p)
    \/ ClientReceive(p)
    \/ OfferCreated(p)
    \/ OfferFails(p)

SpecOfferFails == Init /\ [][NextOfferFails]_vars

\* the pages of the two-page runs
PairIds == {"A", "B"}

\* two pages whose sockets close and reconnect
NextChurn ==
  \E p \in PairIds :
    \/ Connect(p)
    \/ Reconnect(p)
    \/ Close(p)
    \/ RelayReceive(p)
    \/ ClientReceive(p)
    \/ OfferCreated(p)

SpecChurn == Init /\ [][NextChurn]_vars

\* two pages with their cameras
NextCamera ==
  \E p \in PairIds :
    \/ Connect(p)
    \/ RelayReceive(p)
    \/ ClientReceive(p)
    \/ OfferCreated(p)
    \/ NegotiationNeeded(p)
    \/ ToggleCamera(p)
    \/ CameraResolved(p)

SpecCamera == Init /\ [][NextCamera]_vars

\* two pages with the noise filter button and the device list
NextAudio ==
  \E p \in PairIds :
    \/ Connect(p)
    \/ RelayReceive(p)
    \/ ClientReceive(p)
    \/ OfferCreated(p)
    \/ ToggleNoiseFilter(p)
    \/ SwitchAudioDevice(p)

SpecAudio == Init /\ [][NextAudio]_vars

\* two pages with their cameras, the browser reporting when a connection
\* is connected
NextNegotiate ==
  \E p \in PairIds :
    \/ Connect(p)
    \/ RelayReceive(p)
    \/ ClientReceive(p)
    \/ OfferCreated(p)
    \/ NegotiationNeeded(p)
    \/ ConnectionStateConnected(p)
    \/ ToggleCamera(p)
    \/ CameraResolved(p)

SpecNegotiate == Init /\ [][NextNegotiate]_vars

\* two pages with their screen shares
NextScreen ==
  \E p \in PairIds :
    \/ Connect(p)
    \/ RelayReceive(p)
    \/ ClientReceive(p)
    \/ OfferCreated(p)
    \/ ToggleScreenShare(p)
    \/ ScreenResolved(p)
    \/ ScreenEnded(p)
    \/ SubscriberOffered(p)
    \/ \E q \in PairIds \ {p} : SubscribeToScreen(p, q)

SpecScreen == Init /\ [][NextScreen]_vars

\* the relay alone, its clients sending any frame: every type the switch
\* knows, with `to` connected or not and naming another peer in `from` /
\* `peerId` (its own id when the sender is that peer), a type it does not
\* know, and text that is not JSON
Forged == {"C"}

Targets == {"A", "B", NoId}

TargetedInputs ==
  {[Msg(t) EXCEPT !.to = to, !.from = from] :
     t \in Forwarded, to \in Targets, from \in Forged}

StatusInputs ==
  {[Msg(t) EXCEPT !.peerId = id, !.flag = f] :
     t \in {"mute-status", "camera-status"}, id \in Forged, f \in BOOLEAN}

ScreenInputs ==
  {[Msg(t) EXCEPT !.peerId = id] :
     t \in {"screen-start", "screen-stop"}, id \in Forged}

FrameInputs ==
  {Frame(d) : d \in TargetedInputs \cup StatusInputs \cup ScreenInputs
                      \cup {[Msg("ping") EXCEPT !.to = "A"]}}
    \cup {NotJson}

ForwardConnect(p) ==
  /\ ~HasPeer(peers, p)
  /\ OnConnect(p)
  /\ NameOf(peers', p) \in allocateFrom(peers, QuietEmber)
  /\ UNCHANGED <<count, vad, clientVars>>

ForwardFrame(p) ==
  /\ HasPeer(peers, p)
  /\ \E message \in FrameInputs : OnFrame(p, message)
  /\ UNCHANGED <<count, vad, clientVars>>

NextForward ==
  \E p \in Ids : ForwardConnect(p) \/ ForwardFrame(p) \/ RelayClose(p)

SpecForward == Init /\ [][NextForward]_vars

\* A shares its screen and B watches it; frames in flight are delivered and
\* handled, and a createOffer that is pending settles
NextSubscribe ==
  \/ \E p \in PairIds :
       \/ Connect(p)
       \/ RelayReceive(p)
       \/ ClientReceive(p)
       \/ OfferCreated(p)
  \/ ToggleScreenShare("A")
  \/ ScreenResolved("A")
  \/ SubscriberOffered("A")
  \/ SubscribeToScreen("B", "A")

SpecSubscribe ==
  /\ Init
  /\ [][NextSubscribe]_vars
  /\ \A p \in PairIds :
       /\ WF_vars(RelayReceive(p))
       /\ WF_vars(ClientReceive(p))
       /\ WF_vars(OfferCreated(p))
  /\ WF_vars(SubscriberOffered("A"))

\* what the user types into the name box
NameDrafts == {River, RiverUp \o <<" ">>}

\* display names committed in a run
MaxEdits == 1

\* the user commits an edited display name
CommitEditName(p) ==
  /\ HasPeer(peers, p) /\ cl[p].myId = p
  /\ count.renames < MaxEdits
  /\ \E nameDraft \in NameDrafts : ClientStep(p, commitEditName(cl[p], nameDraft))
  /\ count' = [count EXCEPT !.renames = @ + 1]
  /\ UNCHANGED <<relayVars, last, vad, inbox>>

\* three pages join while B edits its display name
NextRename ==
  \/ \E p \in Ids :
       \/ Connect(p)
       \/ RelayReceive(p)
       \/ ClientReceive(p)
       \/ OfferCreated(p)
  \/ CommitEditName("B")

SpecRename == Init /\ [][NextRename]_vars

\* a click on the screen-share button while A and B are alone and nothing
\* is in flight between them
ShareAlone(p) ==
  /\ count.connects = 2
  /\ Quiet
  /\ ToggleScreenShare(p)

\* three pages: B shares its screen and leaves, C joins last and watches
NextLeave ==
  \/ \E p \in Ids :
       \/ Connect(p)
       \/ RelayReceive(p)
       \/ ClientReceive(p)
       \/ OfferCreated(p)
  \/ ShareAlone("B")
  \/ ScreenResolved("B")
  \/ SubscriberOffered("B")
  \/ SubscribeToScreen("C", "B")
  \/ Close("B")

SpecLeave == Init /\ [][NextLeave]_vars

\* clicks on the screen-share button in a run of SpecShare
MaxShares == 4

\* both pages have joined and every frame sent has been handled
Settled ==
  /\ count.connects = 2
  /\ \A p \in Ids : inbox[p] = <<>> /\ up[p] = <<>>

\* a click on the screen-share button, also while an earlier click waits
\* for the picker
ShareClick(p) ==
  /\ Settled
  /\ HasPeer(peers, p) /\ cl[p].myId = p
  /\ count.shares < MaxShares
  /\ ClientStep(p, toggleScreenShare(cl[p]))
  /\ count' = [count EXCEPT !.shares = @ + 1]
  /\ UNCHANGED <<relayVars, last, vad, inbox>>

\* a click on the screen indicator of q on the page of p
WatchClick(p, q) == Settled /\ SubscribeToScreen(p, q)

\* A shares, stops and shares again while B watches
NextShare ==
  \/ \E p \in PairIds :
       \/ Connect(p)
       \/ RelayReceive(p)
       \/ ClientReceive(p)
       \/ OfferCreated(p)
  \/ ShareClick("A")
  \/ ScreenResolved("A")
  \/ ScreenEnded("A")
  \/ SubscriberOffered("A")
  \/ WatchClick("B", "A")

SpecShare == Init /\ [][NextShare]_vars

\* clicks on a screen indicator in a run of SpecWatch
MaxWatch == 3

\* the three pages have opened their sockets
AllJoined == count.connects = Len(IdOrder)

\* a click on the screen-share button once the room is complete
ShareJoined(p) == AllJoined /\ Quiet /\ ToggleScreenShare(p)

\* a click on the screen indicator of q on the page of p, subscribing or
\* unsubscribing
WatchToggle(p, q) ==
  /\ AllJoined
  /\ HasPeer(peers, p) /\ cl[p].myId = p
  /\ count.watch < MaxWatch
  /\ LET r == subscribeToScreen(cl[p], q)
     IN /\ ClientStep(p, r)
        /\ last' = Last("subscribeToScreen", p, [Msg("click") EXCEPT !.to = q],
                        r.out)
  /\ count' = [count EXCEPT !.watch = @ + 1]
  /\ UNCHANGED <<relayVars, vad, inbox>>

\* A shares its screen; B and C watch it and stop watching
NextWatch ==
  \/ \E p \in Ids :
       \/ Connect(p)
       \/ RelayReceive(p)
       \/ ClientReceive(p)
       \/ OfferCreated(p)
  \/ ShareJoined("A")
  \/ ScreenResolved("A")
  \/ SubscriberOffered("A")
  \/ \E p \in {"B", "C"} : WatchToggle(p, "A")

SpecWatch == Init /\ [][NextWatch]_vars

\* a click on the screen-share button while nothing is in flight
ShareQuiet(p) == count.connects = 2 /\ Quiet /\ ToggleScreenShare(p)

\* a click on the screen indicator of q while nothing is in flight
WatchQuiet(p, q) == Quiet /\ SubscribeToScreen(p, q)

\* A and B share their screens and watch each other; the connections of
\* the screen-share edges produce ICE candidates
NextIce ==
  \E p \in PairIds :
    \/ Connect(p)
    \/ RelayReceive(p)
    \/ ClientReceive(p)
    \/ OfferCreated(p)
    \/ ShareQuiet(p)
    \/ ScreenResolved(p)
    \/ SubscriberOffered(p)
    \/ \E q \in PairIds \ {p} : WatchQuiet(p, q)
    \/ SharerCandidate(p)
    \/ ViewerCandidate(p)

SpecIce == Init /\ [][NextIce]_vars

\* A shares its screen, B watches and the socket of B closes
NextViewerLeaves ==
  \/ \E p \in PairIds :
       \/ Connect(p)
       \/ RelayReceive(p)
       \/ ClientReceive(p)
       \/ OfferCreated(p)
  \/ ShareAlone("A")
  \/ ScreenResolved("A")
  \/ SubscriberOffered("A")
  \/ SubscribeToScreen("B", "A")
  \/ Close("B")

SpecViewerLeaves == Init /\ [][NextViewerLeaves]_vars

\* a page joins a room in which a share is on and nothing is in flight
JoinShared(p) == screenSharers # {} /\ Quiet /\ Connect(p)

\* the socket of a sharer closes once every page has joined
LeaveSharing(p) == AllJoined /\ p \in screenSharers /\ Close(p)

\* a click on the screen indicator of q on a page of p that holds no
\* viewer connection for q
WatchFresh(p, q) ==
  /\ ~Has(cl[p].screenViewerConnections, q)
  /\ SubscribeToScreen(p, q)

\* B shares its screen, C joins and watches, the socket of B closes and
\* PartySocket reconnects it
NextRejoin ==
  \/ \E p \in PairIds : Connect(p)
  \/ \E p \in Ids :
       \/ RelayReceive(p)
       \/ ClientReceive(p)
       \/ OfferCreated(p)
  \/ ShareAlone("B")
  \/ ScreenResolved("B")
  \/ SubscriberOffered("B")
  \/ WatchFresh("C", "B")
  \/ JoinShared("C")
  \/ LeaveSharing("B")
  \/ Reconnect("B")

SpecRejoin == Init /\ [][NextRejoin]_vars

(***************************************************************************)
(* Properties                                                              *)
(***************************************************************************)
\* the relay has just handled a rename-request from a
RenameStep(a) ==
  /\ last' # last
  /\ last'.op = "onMessage" /\ last'.who = a
  /\ last'.data.type = "rename-request"
  /\ HasPeer(peers, a)

\* C1: in every reachable relay state no two peers of the roster have
\* display names that are equal when compared case-insensitively
NamesUnique ==
  \A i, j \in DOMAIN peers :
    i # j => toLowerCase(peers[i].name) # toLowerCase(peers[j].name)

\* a roster where a name differing only in case was asked for and suffixed
NamesUniqueWitness ==
  \E i, j \in DOMAIN peers :
    /\ peers[i].name = RiverUp
    /\ peers[j].name = Candidate(River, 2)

\* C7: with the threshold unchanged since start, frame n goes out denoised
\* exactly when frame n or one of the HOLD_FRAMES frames before it scored
\* at least the threshold, and goes out as zeros otherwise
GateLaw ==
  ~vad.moved =>
    \A n \in DOMAIN vad.gated :
      vad.gated[n] <=>
        \E m \in DOMAIN vad.scores :
          /\ n - HOLD_FRAMES <= m /\ m <= n
          /\ vad.scores[m] >= vad.vadThreshold

\* a voiced frame followed by eleven unvoiced ones: ten pass, the eleventh
\* is zeroed
GateLawWitness ==
  /\ ~vad.moved
  /\ \E n \in DOMAIN vad.scores :
       /\ n + HOLD_FRAMES + 1 \in DOMAIN vad.scores
       /\ vad.scores[n] >= vad.vadThreshold
       /\ \A k \in 1..(HOLD_FRAMES + 1) : vad.scores[n + k] < vad.vadThreshold
       /\ vad.gated[n + HOLD_FRAMES]
       /\ ~vad.gated[n + HOLD_FRAMES + 1]

\* what the gate puts out for the scores scs, from the state v on
RECURSIVE GateRun(_, _)
GateRun(v, scs) ==
  IF scs = <<>> THEN v.gated ELSE GateRun(GateFrame(v, Head(scs)), Tail(scs))

\* the state a first start leaves, under the threshold in force
FirstStart ==
  startBuild([VadInit EXCEPT !.vadThreshold = vad.vadThreshold])

\* a start has just returned the processed track and no block has come yet
JustStarted ==
  /\ vad.isActive /\ vad.call = NoCall /\ vad.ret = "processed"
  /\ vad.scores = <<>>

\* score sequences compared in RestartFresh
RunLen == 11

\* C8: a start, also one that follows a stop, leaves the gate's processing
\* state as a first start does (hold counter 0, voice inactive, all buffer
\* indices 0), so every score sequence is gated as on a first start, and
\* the model context in use was created by this start and not destroyed
RestartFresh ==
  JustStarted =>
    /\ vad.voiceHoldCounter = 0 /\ ~vad.isVoiceActive
    /\ vad.inputWriteIdx = 0 /\ vad.inputReadIdx = 0
    /\ vad.outputWriteIdx = 0 /\ vad.outputReadIdx = 0
    /\ \A scs \in ScoreSeqs(RunLen) : GateRun(vad, scs) = GateRun(FirstStart, scs)
    /\ vad.rnnoiseContext = vad.ctxSeq
    /\ vad.rnnoiseContext \in vad.liveCtx

\* a second session has just started after the first one was stopped
RestartFreshWitness ==
  /\ JustStarted
  /\ vad.starts = 2 /\ vad.ctxSeq = 2
  /\ vad.liveCtx = {2}

\* C9: when the relay handles rename-request from A and the resulting name
\* differs from A's current one, the roster entry is updated and exactly one
\* rename{A, name} goes to every connected peer, A included; when it is the
\* same, the roster is unchanged and nothing is sent
RenameBroadcast ==
  [][\A a \in Ids :
       RenameStep(a) =>
         LET old == NameOf(peers, a)
             new == NameOf(peers', a)
         IN IF new # old
              THEN /\ PeerIds(peers') = PeerIds(peers)
                   /\ last'.sent =
                        [i \in DOMAIN peers' |->
                           [to |-> peers'[i].id,
                            msg |-> [Msg("rename") EXCEPT !.peerId = a,
                                                          !.name = new]]]
              ELSE /\ peers' = peers
                   /\ last'.sent = <<>>]_vars

\* a rename was broadcast to at least two peers, the sender among them
RenameBroadcastWitness ==
  /\ last.op = "onMessage" /\ last.data.type = "rename-request"
  /\ Len(last.sent) >= 2
  /\ \E i \in DOMAIN last.sent : last.sent[i].to = last.who

\* the first k from i on for which no peer other than a holds base-k
RECURSIVE FirstFreeFor(_, _, _, _)
FirstFreeFor(ps, base, i, a) ==
  IF ~isNameTaken(ps, Candidate(base, i), a) THEN i
  ELSE FirstFreeFor(ps, base, i + 1, a)

\* the name rename-request assigns when a's own name never counts as taken
ExpectedName(ps, a, proposed) ==
  IF ~isNameTaken(ps, proposed, a) THEN proposed
  ELSE Candidate(proposed, FirstFreeFor(ps, proposed, 2, a))

\* C10: the name assigned on rename-request from A is the sanitized proposal
\* when no peer other than A holds it, and otherwise <proposal>-k for the
\* smallest k >= 2 that no peer other than A holds; A's own current name
\* is never treated as taken
RenameExcludesSender ==
  [][\A a \in Ids :
       RenameStep(a) =>
         \E proposed \in sanitizeName(last'.data.name) :
           NameOf(peers', a) = ExpectedName(peers, a, proposed)]_vars

\* the place of a connected peer in the relay's roster (Map insertion order)
Pos(id) == CHOOSE i \in DOMAIN peers : peers[i].id = id

Connected == {peers[i].id : i \in DOMAIN peers}

\* un-closed mesh PeerConnection objects the page of p holds for remote q
Unclosed(p, q) ==
  (IF Has(cl[p].connections, q) THEN 1 ELSE 0)
    + (IF q \in cl[p].orphans THEN 1 ELSE 0)

\* C3: in every reachable state a page holds at most one un-closed mesh
\* connection for each remote peer id, also after connectToPeer was called
\* for an id that already has one
OneConnectionPerPeer ==
  \A p \in Ids : \A q \in Ids : Unclosed(p, q) <= 1

\* a page that reconnected has handled a welcome naming a peer it kept a
\* connection to: connectToPeer returned at its guard
OneConnectionPerPeerWitness ==
  \E p \in Connected : \E q \in Connected :
    /\ Pos(q) < Pos(p)
    /\ cl[p].myId = p /\ inbox[p] = <<>> /\ q \in cl[p].introduced
    /\ Has(cl[p].connections, q) /\ ~cl[p].connections[q].initiator

\* the peer a frame is about or from
SenderOf(d) == IF d.type \in Forwarded THEN d.from ELSE d.peerId

\* a client reading its queue in order: is every join for a peer it has not
\* been told of, every other frame from a peer it has been told of, and
\* which peers has it been told of at the end
RECURSIVE Scan(_, _, _)
Scan(self, known, box) ==
  IF box = <<>> THEN [ok |-> TRUE, known |-> known]
  ELSE LET d == Head(box)
       IN IF d.type \in {"welcome", "leave"}
            THEN Scan(self, Introduce(known, d), Tail(box))
          ELSE IF d.type = "join"
            THEN IF d.peerId \in known \cup {self}
                   THEN [ok |-> FALSE, known |-> known]
                   ELSE Scan(self, Introduce(known, d), Tail(box))
          ELSE IF SenderOf(d) \in known \cup {self}
            THEN Scan(self, known, Tail(box))
          ELSE [ok |-> FALSE, known |-> known]

\* C4: a peer that connects is told, by welcome, of exactly the peers
\* connected before it; each of those receives one join for it and never a
\* second, the newcomer none for them; and on every connection the join (or
\* the welcome) that names a peer comes before any frame from that peer
JoinBeforeTraffic ==
  \A p \in Connected :
    LET s == Scan(p, cl[p].introduced, inbox[p])
    IN s.ok /\ s.known = Connected \ {p}

\* P, connected before Q, has handled join{Q} and has an offer of Q next in
\* its queue
JoinBeforeTrafficWitness ==
  \E p \in Connected : \E q \in Connected :
    /\ Pos(p) < Pos(q)
    /\ q \in cl[p].introduced
    /\ inbox[p] # <<>>
    /\ Head(inbox[p]).type = "offer" /\ Head(inbox[p]).from = q

\* C5: after joins only, once every frame is handled, each connected page
\* holds one peer session for each other connected peer, the side that
\* joined later having created its session as initiator and the other side
\* as non-initiator
OneSessionPerPair ==
  (count.closes = 0 /\ Quiet) =>
    \A p \in Connected :
      /\ DOMAIN cl[p].connections = Connected \ {p}
      /\ DOMAIN cl[p].peers = Connected \ {p}
      /\ cl[p].orphans = {}
      /\ \A q \in Connected \ {p} :
           cl[p].connections[q].initiator = (Pos(q) < Pos(p))

\* three pages joined and everything was handled
OneSessionPerPairWitness ==
  /\ count.closes = 0 /\ Quiet
  /\ Cardinality(Connected) = 3
  /\ \A p \in Connected : cl[p].myId = p

\* a frame of this type from p to q is on its way: sent by p and not yet
\* relayed, or relayed and not yet handled by q
InFlight(type, p, q) ==
  \/ \E i \in DOMAIN up[p] : up[p][i].type = type /\ up[p][i].to = q
  \/ \E i \in DOMAIN inbox[q] :
       inbox[q][i].type = type /\ inbox[q][i].from = p

\* p has sent q an offer on their mesh edge that q has not answered
OfferOutstanding(p, q) ==
  /\ Has(cl[p].connections, q)
  /\ cl[p].connections[q].signalingState = "have-local-offer"
  /\ ~InFlight("answer", q, p)

\* C2: no state is reachable in which the two ends of a mesh edge each have
\* an unanswered offer outstanding to the other, the non-initiator never
\* offering on its own initiative
NoDualOffer ==
  \A p \in Ids : \A q \in Ids \ {p} :
    ~(OfferOutstanding(p, q) /\ OfferOutstanding(q, p))

\* the screen-share edge from the page of p to sharer q is unsubscribed
Unsubscribed(p, q) ==
  /\ ~Has(cl[p].screenViewerConnections, q)
  /\ Has(cl[p].peers, q) => ~cl[p].peers[q].screenSubscribed

\* subscribeToScreen(q) has just run on the page of p
SubscribeCall(p, q) ==
  /\ count'.subs = count.subs + 1
  /\ last'.op = "subscribeToScreen" /\ last'.who = p /\ last'.data.to = q

\* C6 as stated: the operation that unsubscribes, called on an edge that is
\* unsubscribed, changes nothing and sends nothing
UnsubscribeIdempotent ==
  [][\A p \in Ids : \A q \in Ids :
       (SubscribeCall(p, q) /\ Unsubscribed(p, q)) =>
         (cl'[p] = cl[p] /\ up'[p] = up[p])]_vars

\* C6: subscribeToScreen, the one operation that unsubscribes, called on an
\* edge that is unsubscribed never sends screen-unsubscribe; it changes
\* nothing and sends nothing when the sharer is unknown or not sharing, and
\* otherwise subscribes: one viewer connection, one screen-subscribe
ToggleOnUnsubscribed ==
  [][\A p \in Ids : \A q \in Ids :
       (SubscribeCall(p, q) /\ Unsubscribed(p, q)) =>
         IF Has(cl[p].peers, q) /\ cl[p].peers[q].screenSharing
           THEN /\ last'.sent = <<[Msg("screen-subscribe") EXCEPT !.to = q]>>
                /\ up'[p] = up[p] \o last'.sent
                /\ cl'[p].peers[q].screenSubscribed
                /\ Has(cl'[p].screenViewerConnections, q)
           ELSE /\ last'.sent = <<>>
                /\ cl'[p] = cl[p] /\ up'[p] = up[p]]_vars

\* subscribeToScreen ran on an unsubscribed edge to a sharer and subscribed
ToggleOnUnsubscribedWitness ==
  /\ last.op = "subscribeToScreen"
  /\ Len(last.sent) = 1 /\ last.sent[1].type = "screen-subscribe"
  /\ Has(cl[last.who].screenViewerConnections, last.data.to)

\* the relay has just run onClose for p
CloseStep(p) ==
  /\ last' # last
  /\ last'.op = "onClose" /\ last'.who = p

\* the relay has just run onMessage for a frame of p
MessageStep(p) ==
  /\ last' # last
  /\ last'.op = "onMessage" /\ last'.who = p

\* the messages among sent that go to q, in the order sent
Received(sent, q) ==
  LET mine == SelectSeq(sent, LAMBDA f : f.to = q)
  IN [i \in DOMAIN mine |-> mine[i].msg]

RosterIds(ps) == {ps[i].id : i \in DOMAIN ps}

\* C12: when a peer's connection closes it is afterwards in neither the
\* roster nor the sharer set; if it was sharing, every remaining peer gets
\* screen-stop for it and then leave for it, and if it was not, every
\* remaining peer gets the leave alone
ScreenStopBeforeLeave ==
  [][\A p \in Ids : CloseStep(p) =>
       /\ ~HasPeer(peers', p)
       /\ p \notin screenSharers'
       /\ \A q \in RosterIds(peers') :
            Received(last'.sent, q) =
              IF p \in screenSharers
                THEN << [Msg("screen-stop") EXCEPT !.peerId = p],
                        [Msg("leave") EXCEPT !.peerId = p] >>
                ELSE << [Msg("leave") EXCEPT !.peerId = p] >>]_vars

\* a sharer has just gone and two peers remain, each sent two frames
ScreenStopBeforeLeaveWitness ==
  /\ last.op = "onClose"
  /\ Len(peers) = 2
  /\ Len(last.sent) = 4
  /\ last.sent[1].msg.type = "screen-stop"

\* C13: a targeted message whose `to` is not a connected peer makes the relay
\* send nothing, to the sender or anyone, and leaves roster and sharer set
\* as they were
UnknownTargetSilent ==
  [][\A p \in Ids :
       (/\ MessageStep(p)
        /\ last'.data.type \in Forwarded
        /\ ~HasPeer(peers, last'.data.to)) =>
         /\ last'.sent = <<>>
         /\ UNCHANGED relayVars]_vars

\* an offer for a peer that has left, sent while two others are connected
UnknownTargetSilentWitness ==
  /\ last.op = "onMessage"
  /\ last.data.type = "offer"
  /\ last.data.to \in Ids
  /\ ~HasPeer(peers, last.data.to)
  /\ last.sent = <<>>
  /\ Len(peers) = 2

\* the types the switch of onMessage has a case for
KnownTypes ==
  Forwarded \cup {"mute-status", "camera-status", "screen-start",
                  "screen-stop", "rename-request"}

\* C14: a frame that is not JSON, or whose type the relay does not know, is
\* handled without a send and without a change of roster or sharer set, so
\* that the next frame meets the state the bad one found
BadFrameIgnored ==
  [][\A p \in Ids :
       (MessageStep(p) /\ last'.data.type \notin KnownTypes) =>
         /\ last'.sent = <<>>
         /\ UNCHANGED relayVars
         /\ HasPeer(peers', p)]_vars

\* text that is not JSON has arrived from a peer in a room with a sharer
BadFrameIgnoredWitness ==
  /\ last.op = "onMessage"
  /\ last.data = NotJson.data
  /\ HasPeer(peers, last.who)
  /\ screenSharers # {}
  /\ Len(peers) = 3

\* C15: a forwarded message goes to `to` alone, as the sender wrote it but
\* with `from` the sender's id; a status or screen broadcast carries the
\* sender's id as peerId and goes once to every peer but the sender
SenderStamped ==
  [][\A p \in Ids : MessageStep(p) =>
       LET d == last'.data
           sent == last'.sent
       IN /\ d.type \in Forwarded =>
               sent = IF HasPeer(peers, d.to)
                        THEN << [to |-> d.to, msg |-> [d EXCEPT !.from = p]] >>
                        ELSE << >>
          /\ d.type \in {"mute-status", "camera-status",
                          "screen-start", "screen-stop"} =>
               /\ Received(sent, p) = << >>
               /\ \A q \in RosterIds(peers) \ {p} :
                    Received(sent, q) =
                      << [Msg(d.type) EXCEPT !.peerId = p, !.flag = d.flag] >>
               /\ \A i \in DOMAIN sent : sent[i].to \in RosterIds(peers)]_vars

\* an answer naming C as its `from` was sent by another peer and reached its
\* target, with a third peer connected
SenderStampedWitness ==
  /\ last.op = "onMessage"
  /\ last.data.type = "answer"
  /\ last.data.from = "C"
  /\ last.who # "C"
  /\ Len(peers) = 3
  /\ Len(last.sent) = 1
  /\ last.sent[1].to = last.data.to
  /\ last.sent[1].msg.from = last.who

\* p is sharing: its page says so, having announced screen-start
Sharing(p) == cl[p].screenSharing

\* q has called subscribe for p and not unsubscribed since
Subscribed(q, p) ==
  /\ Has(cl[q].peers, p)
  /\ cl[q].peers[p].screenSubscribed
  /\ Has(cl[q].screenViewerConnections, p)

\* the subscription of q to p is through: p holds a subscriber connection for
\* q with q's answer applied, q's viewer connection has p's offer, and q's
\* record of p holds the stream
Watching(q, p) ==
  /\ Has(cl[p].screenShareManager.subscribers, q)
  /\ cl[p].screenShareManager.subscribers[q].signalingState = "stable"
  /\ cl[p].screenShareManager.subscribers[q].remoteDescription
  /\ cl[q].screenViewerConnections[p].remoteDescription
  /\ cl[q].peers[p].screenSubscribed
  /\ cl[q].peers[p].screenStream

\* C11: once B has subscribed to A while A shares, then, unless A stops
\* sharing or B unsubscribes, the exchange runs through: A holds a
\* subscriber connection for B whose offer B answered and whose answer A
\* applied, and B's record of A is subscribed and holds the screen stream
SubscribeCompletes ==
  (Sharing("A") /\ Subscribed("B", "A"))
    ~> (\/ ~Sharing("A")
        \/ ~Subscribed("B", "A")
        \/ Watching("B", "A"))

\* the page of p has just handled leave{q}
LeaveHandled(p, q) ==
  /\ inbox[p] # <<>>
  /\ Head(inbox[p]) = [Msg("leave") EXCEPT !.peerId = q]
  /\ inbox'[p] = Tail(inbox[p])
  /\ UNCHANGED <<relayVars, last>>

\* C16: when a page has handled leave{q} it holds no peer session, no
\* record and no screen-share viewer connection for q
LeaveClearsPeer ==
  [][\A p, q \in Ids : LeaveHandled(p, q) =>
       /\ ~Has(cl'[p].connections, q)
       /\ ~Has(cl'[p].peers, q)
       /\ ~Has(cl'[p].screenViewerConnections, q)]_vars

\* C17: once every frame is handled and no await is pending, no connected
\* page holds a record or a peer session for a peer that is not in the
\* relay's roster, the peers whose leave it has received among them
RosterConverges ==
  Quiet =>
    \A p \in RosterIds(peers) :
      /\ {q \in Ids : Has(cl[p].peers, q)} \subseteq RosterIds(peers) \ {p}
      /\ {q \in Ids : Has(cl[p].connections, q)} \subseteq RosterIds(peers) \ {p}

\* C18: once every frame is handled and no await is pending, each connected
\* page shows for itself and for every peer it has a record of the name
\* the relay's roster holds
NamesConverge ==
  Quiet =>
    \A p \in RosterIds(peers) :
      /\ cl[p].myId = p => cl[p].myName = NameOf(peers, p)
      /\ \A q \in RosterIds(peers) \ {p} :
           Has(cl[p].peers, q) => cl[p].peers[q].name = NameOf(peers, q)

\* C19: at most one audio context with its processing graph is alive, and
\* it is the one the module's audioContext refers to
OneSession ==
  /\ Cardinality(vad.liveAudio) <= 1
  /\ vad.liveAudio \subseteq {vad.audioContext}

\* what the module holds: its variables without the model's bookkeeping
ModuleState(v) ==
  << v.audioContext, v.sourceNode, v.scriptNode, v.destinationNode,
     v.originalTrack, v.processedTrack, v.isActive, v.rnnoiseModule,
     v.rnnoiseContext, v.wasmPcmPtr, v.inputWriteIdx, v.inputReadIdx,
     v.outputWriteIdx, v.outputReadIdx, v.voiceHoldCounter, v.isVoiceActive,
     v.vadThreshold >>

\* a stop has just returned
StopReturns ==
  /\ vad'.returned.n = vad.returned.n + 1
  /\ vad'.returned.op = "stop"

NoiseStartFailed ==
  /\ vad'.noise.returned.n = vad.noise.returned.n + 1
  /\ vad'.noise.returned.op = "start"
  /\ vad'.noise.returned.ret # "processed"

\* C21: a start that could not build a session returns exactly the track it
\* was given, and afterwards no session is active and no processor, audio
\* context or node of the failed attempt is retained
StartNeverFails ==
  [][NoiseStartFailed =>
       /\ vad'.noise.returned.ret = vad'.noise.returned.given
       /\ ~isNoiseSuppressionActive(vad'.noise)
       /\ ~vad'.noise.shiguredoProcessor
       /\ ~vad'.noise.audioContext
       /\ ~vad'.noise.sourceNode
       /\ ~vad'.noise.rnnoiseNode
       /\ ~vad'.noise.destinationNode]_vars

\* un-closed subscriber connections the sharer p holds for subscriber q
UnclosedSubscriber(p, q) ==
  (IF Has(cl[p].screenShareManager.subscribers, q) THEN 1 ELSE 0)
    + (IF q \in cl[p].screenOrphans THEN 1 ELSE 0)

\* un-closed viewer connections the viewer p holds for sharer q
UnclosedViewer(p, q) ==
  (IF Has(cl[p].screenViewerConnections, q) THEN 1 ELSE 0)
    + (IF q \in cl[p].viewerOrphans THEN 1 ELSE 0)

\* C22: in every reachable state a sharer holds at most one un-closed
\* subscriber connection for each subscriber id and a viewer at most one
\* un-closed viewer connection for each sharer id
OneScreenConnectionPerPair ==
  \A p \in Ids : \A q \in Ids :
    UnclosedSubscriber(p, q) <= 1 /\ UnclosedViewer(p, q) <= 1

\* the screen share of p has just ended: its sharing flag fell
ShareEnds(p) == cl[p].screenSharing /\ ~cl'[p].screenSharing

\* C23: when a screen share ends, by the toggle or by the capture ending
\* outside the page, the sharer is left without an open subscriber
\* connection and without a live capture stream, and has sent one
\* screen-stop
ShareEndReleases ==
  [][\A p \in Ids : ShareEnds(p) =>
       /\ cl'[p].screenShareManager.subscribers = EmptyMap
       /\ cl'[p].screenOrphans = {}
       /\ cl'[p].captures = 0
       /\ up'[p] = Append(up[p], [Msg("screen-stop") EXCEPT !.peerId = p])]_vars

\* the page of p has just handled a frame of this type from q
Handled(p, type, q) ==
  /\ inbox[p] # <<>>
  /\ Head(inbox[p]).type = type /\ Head(inbox[p]).from = q
  /\ inbox'[p] = Tail(inbox[p])
  /\ UNCHANGED <<relayVars, last>>

\* the page of p has just unsubscribed from q
UnsubscribeCall(p, q) ==
  /\ count'.watch = count.watch + 1
  /\ last'.op = "subscribeToScreen" /\ last'.who = p /\ last'.data.to = q
  /\ Len(last'.sent) = 1 /\ last'.sent[1].type = "screen-unsubscribe"

\* what a step on the page of p leaves alone when it only touches a
\* screen-share edge: the capture, the sharing flag, the mesh sessions and
\* the peer records of everyone but q
EdgeOnly(p, q) ==
  /\ cl'[p].screenShareManager.live = cl[p].screenShareManager.live
  /\ cl'[p].screenShareManager.stream = cl[p].screenShareManager.stream
  /\ cl'[p].captures = cl[p].captures
  /\ cl'[p].screenSharing = cl[p].screenSharing
  /\ cl'[p].connections = cl[p].connections
  /\ cl'[p].orphans = cl[p].orphans
  /\ cl'[p].screenOrphans = cl[p].screenOrphans
  /\ cl'[p].viewerOrphans = cl[p].viewerOrphans
  /\ DOMAIN cl'[p].peers = DOMAIN cl[p].peers
  /\ \A r \in DOMAIN cl[p].peers \ {q} : cl'[p].peers[r] = cl[p].peers[r]

\* C24: handling screen-unsubscribe from q removes the subscriber connection
\* of q and no other, and unsubscribing from q removes the viewer
\* connection to q and no other; the capture stream, the sharing flag and
\* the mesh sessions stay as they were and no screen-stop is sent
UnsubscribeOneEdge ==
  [][\A p \in Ids : \A q \in Ids :
       /\ Handled(p, "screen-unsubscribe", q) =>
            /\ DOMAIN cl'[p].screenShareManager.subscribers
                 = DOMAIN cl[p].screenShareManager.subscribers \ {q}
            /\ \A r \in DOMAIN cl'[p].screenShareManager.subscribers :
                 cl'[p].screenShareManager.subscribers[r]
                   = cl[p].screenShareManager.subscribers[r]
            /\ cl'[p].screenViewerConnections = cl[p].screenViewerConnections
            /\ cl'[p].peers = cl[p].peers
            /\ EdgeOnly(p, q)
            /\ up'[p] = up[p]
       /\ UnsubscribeCall(p, q) =>
            /\ cl'[p].screenViewerConnections
                 = Del(cl[p].screenViewerConnections, q)
            /\ cl'[p].screenShareManager = cl[p].screenShareManager
            /\ ~cl'[p].peers[q].screenSubscribed
            /\ EdgeOnly(p, q)
            /\ up'[p] = Append(up[p], [Msg("screen-unsubscribe") EXCEPT !.to = q])
      ]_vars

\* B has stopped watching A, A has handled it and still holds the
\* subscriber connection of C
UnsubscribeOneEdgeWitness ==
  /\ last.op = "onMessage" /\ last.who = "B"
  /\ last.data.type = "screen-unsubscribe"
  /\ inbox["A"] = <<>>
  /\ cl["A"].screenShareManager.stream
  /\ Has(cl["A"].screenShareManager.subscribers, "C")
  /\ ~Has(cl["A"].screenShareManager.subscribers, "B")
  /\ ~Has(cl["B"].screenViewerConnections, "A")
  /\ Has(cl["C"].screenViewerConnections, "A")

\* the screen-offer frames p has sent that the relay has not yet handled
OffersSent(p) ==
  {up[p][i].to : i \in {j \in DOMAIN up[p] : up[p][j].type = "screen-offer"}}

\* C25: a page sends screen-offer only to a peer whose screen-subscribe it
\* handled while it was sharing, so a page that only watches sends none;
\* and a screen-subscribe handled by a page that is not sharing sends
\* nothing and creates no connection
OfferOnlyOnSubscribe ==
  [][\A p \in Ids :
       /\ OffersSent(p)' \subseteq cl'[p].asked
       /\ \A q \in Ids :
            (Handled(p, "screen-subscribe", q)
               /\ ~(cl[p].screenSharing /\ cl[p].screenShareManager.stream)) =>
              /\ up'[p] = up[p]
              /\ cl'[p].screenShareManager = cl[p].screenShareManager
              /\ cl'[p].tasks = cl[p].tasks
              /\ cl'[p].screenViewerConnections = cl[p].screenViewerConnections
              /\ cl'[p].connections = cl[p].connections]_vars

\* a sharer has answered a subscription with a screen-offer, and the page
\* it went to has sent none
OfferOnlyOnSubscribeWitness ==
  \E p \in Ids : \E q \in Ids \ {p} :
    /\ q \in OffersSent(p)
    /\ cl[p].screenSharing
    /\ Has(cl[q].screenViewerConnections, p)
    /\ cl[q].asked = {}

\* C26: no page holds, for the same peer, both a subscriber connection
\* (as sharer) and a viewer connection (as viewer)
OneRolePerPair ==
  \A p \in Ids : \A q \in Ids :
    ~(/\ Has(cl[p].screenShareManager.subscribers, q)
      /\ Has(cl[p].screenViewerConnections, q))

\* the negotiation-needed callback of p for q has just passed its guards and
\* called createOffer: a createOffer is pending that was not, on a
\* connection that was there before
RenegotiationStarts(p, q) ==
  /\ Has(cl[p].connections, q)
  /\ cl[p].connections[q].negotiationNeeded
  /\ Has(cl'[p].connections, q)
  /\ ~cl'[p].connections[q].negotiationNeeded
  /\ CopiesIn(Task("offer", q, <<>>), cl'[p].tasks)
       > CopiesIn(Task("offer", q, <<>>), cl[p].tasks)

\* C27: the negotiation-needed callback creates (and then sends) an offer
\* only on a connection that has been connected
RenegotiateOnceConnected ==
  [][\A p \in Ids : \A q \in Ids :
       RenegotiationStarts(p, q) => cl[p].connections[q].connected]_vars

\* the page of p has just applied an offer of q and sent its answer
OfferApplied(p, q) ==
  /\ Handled(p, "offer", q)
  /\ Len(up'[p]) = Len(up[p]) + 1
  /\ up'[p][Len(up'[p])].type = "answer" /\ up'[p][Len(up'[p])].to = q

\* the page of p has just set a local offer on its connection to q and
\* sent it
LocalOfferSet(p, q) ==
  /\ Len(up'[p]) = Len(up[p]) + 1
  /\ up'[p][Len(up'[p])].type = "offer" /\ up'[p][Len(up'[p])].to = q
  /\ Has(cl[p].connections, q)

\* C28: on a mesh connection a remote offer is applied, and a local offer
\* is set, only when no earlier offer on it is unanswered: the connection
\* is stable and, for a local offer, no offer of the peer is on its way
OneRoundAtATime ==
  [][\A p \in Ids : \A q \in Ids \ {p} :
       /\ OfferApplied(p, q) =>
            cl[p].connections[q].signalingState = "stable"
       /\ LocalOfferSet(p, q) =>
            /\ cl[p].connections[q].signalingState = "stable"
            /\ ~InFlight("offer", q, p)]_vars

\* no toggleCamera() of the page of p is waiting for the camera
CameraSettled(p) == ~BagIn(Task("camera", NoId, <<>>), cl[p].tasks)

\* C29: once the camera changes of a page have completed, each of its mesh
\* connections, those opened during a change included, carries the camera
\* track exactly when the camera is enabled
CameraTrackFollowsCamera ==
  \A p \in Ids :
    CameraSettled(p) =>
      \A q \in DOMAIN cl[p].connections :
        cl[p].connections[q].videoSender = cl[p].cameraEnabled

\* the peers on the welcome roster of p when no socket closes: those that
\* joined before it
WelcomeRoster(p) == {IdOrder[i] : i \in 1..(Pos(p) - 1)}

\* the page of p has handled its welcome and none of its createOffer()
\* calls is pending
OffersSettled(p) ==
  /\ cl[p].myId = p
  /\ ~\E t \in BagToSet(cl[p].tasks) : t.kind = "offer"

\* C30: a createOffer() rejected for one peer affects that edge alone: once
\* the offers of a page have settled it holds a mesh connection for every
\* member of its welcome roster
OtherEdgesSurvive ==
  \A p \in Ids :
    (HasPeer(peers, p) /\ OffersSettled(p)) =>
      \A q \in WelcomeRoster(p) : Has(cl[p].connections, q)

\* C31: in every reachable state every PeerRecord of a page that holds a
\* screenStream is subscribed and its peer is sharing
StreamOnlyWhileSubscribed ==
  \A p \in Ids : \A q \in DOMAIN cl[p].peers :
    cl[p].peers[q].screenStream =>
      cl[p].peers[q].screenSubscribed /\ cl[p].peers[q].screenSharing

\* the page of p knows q: it holds a mesh connection or a record for it
Knows(p, q) == Has(cl[p].connections, q) \/ Has(cl[p].peers, q)

\* the step left the page of p as it was and sent nothing from it
Dropped(p) == cl'[p] = cl[p] /\ up'[p] = up[p]

\* the step sent one frame from the page of p, an answer addressed to q
OneAnswer(p, q) ==
  /\ Len(up'[p]) = Len(up[p]) + 1
  /\ SubSeq(up'[p], 1, Len(up[p])) = up[p]
  /\ up'[p][Len(up'[p])].type = "answer" /\ up'[p][Len(up'[p])].to = q

\* C32: an offer or answer from an unknown sender is dropped, and an offer
\* from a sender the page knows is answered with exactly one answer
\* addressed to that sender
OfferAnsweredOnce ==
  [][\A p \in Ids : \A q \in Ids \ {p} :
       /\ (Handled(p, "offer", q) /\ ~Knows(p, q)) => Dropped(p)
       /\ (Handled(p, "answer", q) /\ ~Has(cl[p].connections, q))
            => Dropped(p)
       /\ (Handled(p, "offer", q) /\ Knows(p, q)) => OneAnswer(p, q)]_vars

\* C33: once every frame is handled and no await is pending, each
\* connected page's record of a connected peer has screenSharing true
\* exactly when the peer is in the relay's screen-sharer set, also when the
\* peer started or stopped sharing while the page worked through its
\* welcome roster
SharingConverges ==
  Quiet =>
    \A p \in RosterIds(peers) : \A q \in RosterIds(peers) \ {p} :
      Has(cl[p].peers, q) =>
        (cl[p].peers[q].screenSharing <=> q \in screenSharers)

\* C34 as stated: whoever set the threshold, the gate's threshold lies
\* within [0.5, 0.98]
ThresholdInDragRange == vad.vadThreshold \in 50..98

\* C34: the threshold lies within [0, 1] after setVadThreshold with any
\* number, and within [0.5, 0.98] after a drag of the threshold marker at
\* any pointer position
ThresholdClamped ==
  /\ vad.vadThreshold \in 0..100
  /\ vad.lastSet.by = "handleThresholdDrag" => vad.vadThreshold \in 50..98

\* a drag beyond the right end of the bar left the gate at 0.98, and a
\* session has gated frames with it
ThresholdClampedWitness ==
  /\ vad.lastSet.by = "handleThresholdDrag"
  /\ vad.lastSet.arg > 98
  /\ vad.vadThreshold = 98
  /\ vad.moved /\ vad.scores # <<>>

\* C35: when a sharer has handled leave{q} for a peer q that was subscribed
\* to its screen share, its ScreenShareManager holds no subscriber
\* connection for q
LeaveRemovesSubscriber ==
  [][\A p, q \in Ids :
       (/\ LeaveHandled(p, q)
        /\ cl[p].screenShareManager.live
        /\ Has(cl[p].screenShareManager.subscribers, q))
         => ~Has(cl'[p].screenShareManager.subscribers, q)]_vars

\* C36: a candidate is fed only to the connection of the edge it was
\* produced for: one from a peer's viewer connection to the page's
\* subscriber connection for that peer, one from a peer's sharer-side
\* connection to the page's viewer connection for that peer
IceToOwnEdge ==
  \A p \in Ids : \A f \in cl[p].fed :
    /\ f.candidate = ViewerSide => f.conn = "subscriber"
    /\ f.candidate = SharerSide => f.conn = "viewer"

\* the indices of the two buffers tell the number of unread samples, which
\* is below the buffer length: no unread sample has been overwritten
RingNothingLost ==
  LET r == vad.ring
  IN r.len # 0 =>
       /\ r.inUnread < r.len /\ r.outUnread < r.len
       /\ r.inUnread = getAvailable(r.inputWriteIdx, r.inputReadIdx, r.len)
       /\ r.outUnread = getAvailable(r.outputWriteIdx, r.outputReadIdx, r.len)

\* C37: the buffers never overwrite an unread sample, and once processed
\* samples have started to go out no block of silence is put out for want
\* of processed samples
RingSteady == RingNothingLost /\ ~vad.ring.underrun

\* the audio senders of the connections of p carry localStream's track
SendsLocalTrack(p) ==
  \A q \in DOMAIN cl[p].connections :
    cl[p].connections[q].audioTrack = cl[p].localStream

\* C38: noiseFilterEnabled tells whether the track held as localStream and
\* sent on the connections is the one startNoiseSuppression returned
FilterFlagTellsTrack ==
  \A p \in Ids :
    /\ SendsLocalTrack(p)
    /\ cl[p].noiseFilterEnabled <=> cl[p].localStream = SuppressedTrack

\* C39: on every page the map of peers and the map of connections have
\* the same keys, and at the relay every screen sharer is in the roster
MapsAgree ==
  /\ \A p \in Ids : DOMAIN cl[p].peers = DOMAIN cl[p].connections
  /\ screenSharers \subseteq RosterIds(peers)

\* B closed its socket while it shared its screen, and A, which holds C,
\* has handled the frames of the relay
MapsAgreeWitness ==
  /\ last.op = "onClose" /\ last.who = "B"
  /\ \E i \in DOMAIN last.sent : last.sent[i].msg.type = "screen-stop"
  /\ inbox["A"] = <<>>
  /\ DOMAIN cl["A"].peers = {"C"}
  /\ DOMAIN cl["A"].connections = {"C"}

\* the senders of a connection: the field and the video tracks sent
VideoOf(pc) == <<pc.videoSender, pc.videoTracks>>

\* C40: a connection sends no or one video track; addVideoTrack on a
\* connection with a video sender adds nothing and keeps the sender,
\* removeVideoTrack on one without changes nothing, and hasVideoTrack()
\* tells whether a track added has not been removed
OneVideoSender ==
  \A p \in Ids : \A q \in DOMAIN cl[p].connections :
    LET pc == cl[p].connections[q]
    IN /\ pc.videoTracks \in {0, 1}
       /\ hasVideoTrack(pc) <=> pc.videoTracks = 1
       /\ hasVideoTrack(pc) => VideoOf(addVideoTrack(pc)) = VideoOf(pc)
       /\ ~hasVideoTrack(pc) => removeVideoTrack(pc) = pc
       /\ hasVideoTrack(addVideoTrack(pc))
       /\ ~hasVideoTrack(removeVideoTrack(pc))

\* addVideoTrack was called on a connection that had its video sender
OneVideoSenderWitness ==
  \E p \in Ids : \E q \in DOMAIN cl[p].connections :
    /\ cl[p].connections[q].refused
    /\ hasVideoTrack(cl[p].connections[q])
    /\ cl[p].connections[q].videoTracks = 1

====
